---- MODULE Spec2Model ----
(***************************************************************************)
(* Model of the task dispatcher and generation client of                   *)
(* src/app/agent_system.py: OllamaClient.async_generate, BaseAgent         *)
(* .process_task / ._validate_result and AgentOrchestrator.create_task /   *)
(* .assign_task / .process_all_tasks.                                      *)
(*                                                                         *)
(* Python strings are sequences of one-character strings, so that          *)
(* str.strip, str.startswith, len and the f-string formatting are computed *)
(* as the code computes them.  The program is single threaded: pc is the   *)
(* position of its one thread of control, "idle" between operations.       *)
(* Both callbacks are taken to be registered and not to raise.             *)
(***************************************************************************)
EXTENDS Integers, Sequences, FiniteSets, TLC

VARIABLES
    tasks,            \* heap of Task objects, by object identity (creation order)
    task_queue,       \* AgentOrchestrator.task_queue: sequence of task objects
    completed_tasks,  \* AgentOrchestrator.completed_tasks
    agents,           \* AgentOrchestrator.agents: key -> [status, tasks_completed]
    request_count,    \* key -> OllamaClient.request_count of that agent's client
    pc,               \* control position
    caller,           \* who called assign_task: "direct", "pa" or "none"
    cur,              \* the task assign_task is working on (0: none)
    attempt,          \* async_generate: loop variable attempt
    genResult,        \* process_task: result returned by async_generate
    returned,         \* value returned by the running/last assign_task
    events,           \* events handed to interaction_callback by the running/last async_generate
    genCalls,         \* history: async_generate calls made by this assign_task
    lastGen,          \* history: how the last async_generate call ended
    shortOnly,        \* history: every result of this assign_task was too short
    transportFails,   \* history: transport errors met by the running/last async_generate
    entry,            \* history: snapshot taken when assign_task was entered
    total_tasks,      \* process_all_tasks locals
    failed_tasks,
    completed_count,
    faults,           \* history: failing outcomes injected so far
    directCalls,      \* history: direct assign_task calls made so far
    sleeps,           \* durations slept by the running/last async_generate (client)
                      \* and by the retry loop of the running process_task (task)
    viz,              \* UnifiedVisualizer: layout state and the positions file
    twin,             \* two orchestrators given the same calls, one of them observed
    log,              \* lines passed to log_message by the running assign_task, or by
                      \* process_all_tasks outside its assign_task calls
    log_callback,     \* AgentOrchestrator.log_callback is set
    ollama_interaction_callback  \* AgentOrchestrator.ollama_interaction_callback is set

vars == <<tasks, task_queue, completed_tasks, agents, request_count, pc, caller,
          cur, attempt, genResult, returned, events, genCalls, lastGen, shortOnly,
          transportFails, entry,
          total_tasks,
          failed_tasks, completed_count, faults, directCalls,
          sleeps, viz, twin, log, log_callback, ollama_interaction_callback>>

----------------------------------------------------------------------------
(* Bounds of the model *)

MaxTasks == 2
MaxDirect == 1
MaxFaults == 3
MaxBatch == 3
MaxEdits == 2
MaxTwinSteps == 4

(* Program constants *)

ClientMaxRetries == 3
TaskMaxRetries == 3
MinResultLen == 10
IdWidth == 3
BackoffNum == 3
BackoffDen == 2
GraphicsWidth == 720
VizHeight == 800
OllamaMargin == 80
LoadMargin == 50
MinAgentSize == 25
MaxAgentSize == 150

----------------------------------------------------------------------------
(* Strings *)

S_Answer ==
    <<"A"," ","s","u","f","f","i","c","i","e","n","t","l","y"," ","l","o","n","g"," ","c","a","n","n","e","d"," ","a","n","s","w","e","r",".">>
S_Short ==
    <<"h","i">>
S_ErrorColon ==
    <<"E","r","r","o","r",":">>
S_UnexpectedColon ==
    <<"U","n","e","x","p","e","c","t","e","d"," ","e","r","r","o","r",":">>
S_ErrorAfter ==
    <<"E","r","r","o","r"," ","a","f","t","e","r"," ">>
S_Attempts ==
    <<" ","a","t","t","e","m","p","t","s",":"," ">>
S_Unexpected ==
    <<"U","n","e","x","p","e","c","t","e","d"," ","e","r","r","o","r",":"," ">>
S_TooShort ==
    <<"R","e","s","u","l","t"," ","t","o","o"," ","s","h","o","r","t"," ","o","r"," ","e","m","p","t","y">>
S_LLMReturned ==
    <<"L","L","M"," ","r","e","t","u","r","n","e","d"," ","e","r","r","o","r",":"," ">>
S_ErrorProcessing ==
    <<"E","r","r","o","r"," ","p","r","o","c","e","s","s","i","n","g"," ","t","a","s","k"," ","a","f","t","e","r"," ">>
S_TaskFailed ==
    <<"T","a","s","k"," ","f","a","i","l","e","d"," ","a","f","t","e","r"," ","a","l","l"," ","r","e","t","r","i","e","s">>
S_UnknownAgent ==
    <<"E","r","r","o","r",":"," ","U","n","k","n","o","w","n"," ","a","g","e","n","t"," ","t","y","p","e"," ","'">>
S_Quote ==
    <<"'">>
S_TaskPrefix ==
    <<"t","a","s","k","_">>
S_Refused ==
    <<"r","e","f","u","s","e","d">>
S_Boom ==
    <<"b","o","o","m">>
S_Stamp ==
    <<"1","2",":","0","0",":","0","0">>
S_AnswerNL ==
    S_Answer \o <<"\n">>

None ==
    <<"None">>

Whitespace ==
    {" ", "\t", "\n", "\r"}

DigitChars ==
    <<"0","1","2","3","4","5","6","7","8","9">>

RECURSIVE DecStr(_)
DecStr(n) ==
    IF n < 10 THEN <<DigitChars[n + 1]>>
    ELSE DecStr(n \div 10) \o <<DigitChars[(n % 10) + 1]>>

RECURSIVE ZeroPad(_, _)
ZeroPad(s, width) ==
    IF Len(s) >= width THEN s ELSE ZeroPad(<<"0">> \o s, width)

StartsWith(s, prefix) ==
    /\ Len(s) >= Len(prefix)
    /\ SubSeq(s, 1, Len(prefix)) = prefix

RECURSIVE LStrip(_)
LStrip(s) ==
    IF s # <<>> /\ Head(s) \in Whitespace THEN LStrip(Tail(s)) ELSE s

RECURSIVE RStrip(_)
RStrip(s) ==
    IF s # <<>> /\ s[Len(s)] \in Whitespace
    THEN RStrip(SubSeq(s, 1, Len(s) - 1)) ELSE s

Strip(s) ==
    RStrip(LStrip(s))

----------------------------------------------------------------------------
(* Enumerations and registry *)

IDLE == "idle"
WORKING == "working"
COMPLETED == "completed"
ERROR == "error"

AgentKeys ==
    {"sales", "appraisal", "finance", "manager"}

AgentTypeInputs ==
    {"sales", "finance", "bogus"}

Descriptions ==
    {"Find a cheap sedan"}

AgentTypeChars ==
    [a \in AgentKeys \cup AgentTypeInputs |->
        CASE a = "sales" -> <<"s","a","l","e","s">>
          [] a = "appraisal" -> <<"a","p","p","r","a","i","s","a","l">>
          [] a = "finance" -> <<"f","i","n","a","n","c","e">>
          [] a = "manager" -> <<"m","a","n","a","g","e","r">>
          [] OTHER -> <<"b","o","g","u","s">>]

Responses ==
    {S_AnswerNL, S_Short}

NewTask(id, description, agent_type) ==
    [id |-> id, description |-> description, agent_type |-> agent_type,
     status |-> IDLE, result |-> None, timestamp |-> None,
     retry_count |-> 0, max_retries |-> TaskMaxRetries]

TaskId(n) ==
    S_TaskPrefix \o ZeroPad(DecStr(n), IdWidth)

UnknownAgentMsg(agent_type) ==
    S_UnknownAgent \o AgentTypeChars[agent_type] \o S_Quote

ClientErrorMsg(e) ==
    S_ErrorAfter \o DecStr(ClientMaxRetries) \o S_Attempts \o e

(* Mutant: the exception is reported as a transport failure.                 *)
UnexpectedErrorMsg_AsTransport(e) ==
    ClientErrorMsg(e)

UnexpectedErrorMsg(e) ==
    S_Unexpected \o e

TaskErrorMsg(task, e) ==
    S_ErrorProcessing \o DecStr(task.max_retries) \o S_Attempts \o e

(* Mutant: the length check is dropped.                                      *)
ValidateResult_NoLength(result) ==
    IF StartsWith(result, S_ErrorColon) \/ StartsWith(result, S_UnexpectedColon)
    THEN [ok |-> FALSE, value |-> S_LLMReturned \o result]
    ELSE [ok |-> TRUE, value |-> Strip(result)]

(* _validate_result: [ok |-> TRUE, value |-> the stripped result], or        *)
(* [ok |-> FALSE, value |-> str(e)] of the ValueError it raises.             *)
ValidateResult(result) ==
    IF result = <<>> \/ Len(Strip(result)) < MinResultLen
    THEN [ok |-> FALSE, value |-> S_TooShort]
    ELSE IF StartsWith(result, S_ErrorColon) \/ StartsWith(result, S_UnexpectedColon)
    THEN [ok |-> FALSE, value |-> S_LLMReturned \o result]
    ELSE [ok |-> TRUE, value |-> Strip(result)]

(* `task in lst` and lst.remove(task) on the heap `heap`: Task is a          *)
(* dataclass, so both compare the objects field by field.                    *)
TaskIn(heap, t, lst) ==
    \E i \in 1..Len(lst) : heap[lst[i]] = heap[t]

ListRemove(heap, lst, t) ==
    LET i == CHOOSE k \in 1..Len(lst) :
                 /\ heap[lst[k]] = heap[t]
                 /\ \A j \in 1..(k - 1) : heap[lst[j]] # heap[t]
    IN SubSeq(lst, 1, i - 1) \o SubSeq(lst, i + 1, Len(lst))

RemoveIfIn(heap, lst, t) ==
    IF TaskIn(heap, t, lst) THEN ListRemove(heap, lst, t) ELSE lst

(* Mutant: the id is read before request_count is incremented.              *)
Event_StaleId(type, a, n) ==
    [type |-> type, request_id |-> request_count[a], agent_type |-> a,
     attempt |-> n]

Event(type, a, n) ==
    [type |-> type, request_id |-> request_count[a] + 1, agent_type |-> a,
     attempt |-> n]

(* Mutant: the client gives up one attempt early.                            *)
LastAttempt_Early(n) ==
    ~(n < ClientMaxRetries - 2)

(* async_generate's `if attempt < self.max_retries - 1` fails: the attempt   *)
(* was the last one.                                                         *)
LastAttempt(n) ==
    ~(n < ClientMaxRetries - 1)

(* Mutant: every failed attempt emits an error event.                        *)
FailedAttemptEvents_AlwaysError(evs, a, n) ==
    evs \o <<Event("request", a, n + 1), Event("error", a, ClientMaxRetries)>>

(* The events a failed attempt n (0-based) adds: its request event and,      *)
(* after the last attempt only, the error event.                             *)
FailedAttemptEvents(evs, a, n) ==
    IF LastAttempt(n)
    THEN evs \o <<Event("request", a, n + 1), Event("error", a, ClientMaxRetries)>>
    ELSE Append(evs, Event("request", a, n + 1))

(* Mutant: the error string is not stored as the task's result.              *)
FailUnknown_NoResult(heap, t) ==
    [heap EXCEPT ![t].status = ERROR]

(* Mutant: the failure stamps the task as a completion does.                 *)
FailUnknown_Stamped(heap, t) ==
    [heap EXCEPT ![t].status = ERROR,
                 ![t].result = UnknownAgentMsg(heap[t].agent_type),
                 ![t].timestamp = S_Stamp]

(* assign_task's unknown persona branch on task t.                           *)
FailUnknown(heap, t) ==
    [heap EXCEPT ![t].status = ERROR,
                 ![t].result = UnknownAgentMsg(heap[t].agent_type)]

(* Mutant: the completed count is not incremented.                           *)
CompleteAgent_NoCount(ags, a) ==
    [ags EXCEPT ![a].status = COMPLETED]

(* process_task's success assignments to the agent.                          *)
CompleteAgent_KeepWorking(ags, a) ==
    [ags EXCEPT ![a].tasks_completed = @ + 1]

CompleteAgent(ags, a) ==
    [ags EXCEPT ![a].status = COMPLETED, ![a].tasks_completed = @ + 1]

(* log_message: the line goes to the log callback when one is set, to       *)
(* standard output otherwise.                                                *)
LogMessage_AlwaysPrint(lg, cb, tag, t) ==
    Append(lg, [sink |-> "stdout", tag |-> tag, task |-> t])

LogMessage(lg, cb, tag, t) ==
    Append(lg, [sink |-> IF cb THEN "callback" ELSE "stdout",
                tag |-> tag, task |-> t])

(* The two lines assign_task logs when it is entered for a known persona,    *)
(* and the two it logs when process_task has returned.                       *)
AssignLines(cb, t) ==
    LogMessage(LogMessage(<<>>, cb, "[ASSIGN]", t), cb, "   Task:", t)

CompleteLines(lg, cb, t) ==
    LogMessage(LogMessage(lg, cb, "[COMPLETE]", t), cb, "   Result:", t)

FailedLines(lg, cb, t) ==
    LogMessage(LogMessage(lg, cb, "[FAILED]", t), cb, "   Error:", t)

S_TasksCompleted ==
    <<" ","t","a","s","k","s"," ","c","o","m","p","l","e","t","e","d",","," ">>
S_FailedWord ==
    <<" ","f","a","i","l","e","d">>
S_AllWord ==
    <<"A","l","l"," ">>
S_CompletedOk ==
    <<" ","t","a","s","k","s"," ","c","o","m","p","l","e","t","e","d"," ","s","u","c","c","e","s","s","f","u","l","l","y","!">>

(* Mutant: the summary reports the number of failed tasks as completed.      *)
SummaryLine_Swapped(cb, completed, total, failed) ==
    <<[sink |-> IF cb THEN "callback" ELSE "stdout", tag |-> "[SUMMARY]",
       task |-> 0,
       text |-> DecStr(Len(failed)) \o <<"/">> \o DecStr(total)
                    \o S_TasksCompleted \o DecStr(completed) \o S_FailedWord]>>

(* The first line of process_all_tasks' final summary when a task failed:    *)
(* "[SUMMARY] {completed_count}/{total_tasks} tasks completed, {n} failed".  *)
SummaryLine(cb, completed, total, failed) ==
    <<[sink |-> IF cb THEN "callback" ELSE "stdout", tag |-> "[SUMMARY]",
       task |-> 0,
       text |-> DecStr(completed) \o <<"/">> \o DecStr(total)
                    \o S_TasksCompleted \o DecStr(Len(failed)) \o S_FailedWord]>>

(* "[DONE] All {total_tasks} tasks completed successfully!"                  *)
DoneLine(cb, total) ==
    <<[sink |-> IF cb THEN "callback" ELSE "stdout", tag |-> "[DONE]",
       task |-> 0,
       text |-> S_AllWord \o DecStr(total) \o S_CompletedOk]>>

RECURSIVE FailedSummaryLines(_, _, _)
FailedSummaryLines(lg, cb, failed) ==
    IF failed = <<>> THEN lg
    ELSE FailedSummaryLines(LogMessage(lg, cb, "   Failed:", Head(failed)),
                            cb, Tail(failed))

(* backoff_factor ** attempt in async_generate and 1.5 ** retry_count in     *)
(* process_task, as exact fractions <<numerator, denominator>>.              *)
RECURSIVE Pow(_, _)
Pow(b, n) ==
    IF n = 0 THEN 1 ELSE b * Pow(b, n - 1)

ClientBackoff_FromOne(k) ==
    <<Pow(BackoffNum, k + 1), Pow(BackoffDen, k + 1)>>

ClientBackoff(k) ==
    <<Pow(BackoffNum, k), Pow(BackoffDen, k)>>

TaskBackoff_FromZero(r) ==
    <<Pow(BackoffNum, r - 1), Pow(BackoffDen, r - 1)>>

TaskBackoff(r) ==
    <<Pow(BackoffNum, r), Pow(BackoffDen, r)>>

NoSleeps ==
    [client |-> <<>>, task |-> <<>>]

(* UnifiedVisualizer (src/unified_visualizer.py), as test_resize.py builds   *)
(* it: width 1200, height 800, hence graphics_width int(1200 * 0.6).         *)
VizKeys ==
    {"sales", "appraisal", "finance", "manager", "orchestrator", "ollama"}

(* create_default_agent_positions: the circular layout around the centre    *)
(* (graphics_width // 2, height // 2) with radius min(...) // 4, the         *)
(* orchestrator at the centre, ollama OllamaMargin from the top right.       *)
DefaultPositions ==
    LET cx == GraphicsWidth \div 2
        cy == VizHeight \div 2
        radius == (IF GraphicsWidth < VizHeight THEN GraphicsWidth
                   ELSE VizHeight) \div 4
    IN [a \in VizKeys |->
           CASE a = "sales"        -> <<cx, cy - radius>>
             [] a = "appraisal"    -> <<cx + radius, cy>>
             [] a = "finance"      -> <<cx, cy + radius>>
             [] a = "manager"      -> <<cx - radius, cy>>
             [] a = "orchestrator" -> <<cx, cy>>
             [] a = "ollama"       -> <<GraphicsWidth - OllamaMargin, OllamaMargin>>]

EmptyDict ==
    [k \in {} |-> 0]

NoFile ==
    [kind |-> "absent"]

(* One orchestrator as a value: the fields of AgentOrchestrator, its agents  *)
(* and their clients, what the last call returned, and what the last call    *)
(* printed or handed to the observers.                                       *)
NewOrchestrator ==
    [tasks |-> <<>>,
     task_queue |-> <<>>,
     completed_tasks |-> <<>>,
     agents |-> [a \in AgentKeys |-> [status |-> IDLE, tasks_completed |-> 0]],
     request_count |-> [a \in AgentKeys |-> 0],
     returned |-> None,
     hung |-> FALSE,
     log_callback |-> FALSE,
     ollama_interaction_callback |-> FALSE,
     log |-> <<>>,
     events |-> <<>>]

(* Two orchestrators given the same calls and the same transport outcomes:   *)
(* one never has an observer, the other may have them registered.            *)
TwinDefault ==
    [plain |-> NewOrchestrator, observed |-> NewOrchestrator, steps |-> 0]

(* The dispatcher run on its own: no visualizer is constructed, no second    *)
(* orchestrator exists.                                                      *)
NoVisualizer ==
    [phase |-> "absent"]

NoTwin ==
    [steps |-> 0]

(* The visualizer constructed with no positions file on disk.                *)
VizDefault ==
    [agent_positions |-> DefaultPositions,
     agent_custom_sizes |-> EmptyDict,
     positions_file |-> NoFile,
     using_default_positions |-> TRUE,
     loaded |-> FALSE,
     original_sizes |-> EmptyDict,
     saved |-> FALSE,
     edits |-> 0,
     phase |-> "none"]

NoEntry ==
    [retry_count |-> 0, tasks_completed |-> 0, status |-> IDLE]

NoGen ==
    [kind |-> "none", text |-> None, fails |-> 0]

----------------------------------------------------------------------------
(* Initial state: AgentOrchestrator.__init__ *)

Init ==
    /\ tasks = <<>>
    /\ task_queue = <<>>
    /\ completed_tasks = <<>>
    /\ agents = [a \in AgentKeys |-> [status |-> IDLE, tasks_completed |-> 0]]
    /\ request_count = [a \in AgentKeys |-> 0]
    /\ pc = "idle"
    /\ caller = "none"
    /\ cur = 0
    /\ attempt = 0
    /\ genResult = None
    /\ returned = None
    /\ events = <<>>
    /\ genCalls = 0
    /\ lastGen = NoGen
    /\ shortOnly = TRUE
    /\ transportFails = 0
    /\ entry = NoEntry
    /\ total_tasks = 0
    /\ failed_tasks = <<>>
    /\ completed_count = 0
    /\ faults = 0
    /\ directCalls = 0
    /\ sleeps = NoSleeps
    /\ viz = NoVisualizer
    /\ twin = NoTwin
    /\ log = <<>>
    /\ log_callback = FALSE
    /\ ollama_interaction_callback = FALSE

paLocals == <<total_tasks, failed_tasks, completed_count>>
genVars == <<attempt, genResult, events, genCalls, lastGen, shortOnly, transportFails,
             sleeps>>
cbVars == <<log_callback, ollama_interaction_callback, viz, twin>>

----------------------------------------------------------------------------
(* AgentOrchestrator.create_task *)

CreateTask(description, agent_type) ==
    /\ pc = "idle"
    /\ LET task_id == TaskId(Len(task_queue) + Len(completed_tasks) + 1)
       IN tasks' = Append(tasks, NewTask(task_id, description, agent_type))
    /\ task_queue' = Append(task_queue, Len(tasks) + 1)
    /\ UNCHANGED <<completed_tasks, agents, request_count, pc, caller, cur,
                   returned, entry, faults, directCalls, log>>
    /\ UNCHANGED genVars
    /\ UNCHANGED paLocals
    /\ UNCHANGED cbVars

(* assign_task from its entry into process_task, up to the first            *)
(* async_generate call.  An unknown persona returns at once.  Otherwise the  *)
(* agent and the task are set WORKING; when the while loop of process_task   *)
(* is not entered (retry_count >= max_retries), process_task returns its     *)
(* fall-through string and assign_task, finding the task not COMPLETED,      *)
(* returns it.                                                               *)
AssignEnter(t, who) ==
    /\ cur' = t
    /\ caller' = who
    /\ events' = <<>>
    /\ sleeps' = NoSleeps
    /\ genCalls' = 0
    /\ lastGen' = NoGen
    /\ shortOnly' = TRUE
    /\ transportFails' = 0
    /\ attempt' = 0
    /\ genResult' = None
    /\ IF tasks[t].agent_type \notin AgentKeys
       THEN /\ tasks' = FailUnknown(tasks, t)
            /\ returned' = UnknownAgentMsg(tasks[t].agent_type)
            /\ entry' = [retry_count |-> tasks[t].retry_count,
                         tasks_completed |-> 0, status |-> tasks[t].status]
            /\ log' = LogMessage(<<>>, log_callback, "[ERROR]", t)
            /\ pc' = "assign_ret"
            /\ UNCHANGED agents
       ELSE /\ agents' = [agents EXCEPT ![tasks[t].agent_type].status = WORKING]
            /\ tasks' = [tasks EXCEPT ![t].status = WORKING]
            /\ entry' = [retry_count |-> tasks[t].retry_count,
                         tasks_completed |-> agents[tasks[t].agent_type].tasks_completed,
                         status |-> tasks[t].status]
            /\ IF tasks[t].retry_count < tasks[t].max_retries
               THEN /\ pc' = "gen"
                    /\ returned' = None
                    /\ log' = AssignLines(log_callback, t)
               ELSE /\ pc' = "assign_ret"
                    /\ returned' = S_TaskFailed
                    /\ log' = FailedLines(AssignLines(log_callback, t),
                                          log_callback, t)
    /\ UNCHANGED <<task_queue, completed_tasks, request_count, faults>>
    /\ UNCHANGED cbVars

AssignTaskCall(t) ==
    /\ pc = "idle"
    /\ directCalls < MaxDirect
    /\ directCalls' = directCalls + 1
    /\ AssignEnter(t, "direct")
    /\ UNCHANGED paLocals

(* OllamaClient.async_generate.  With max_retries = 3 the for loop always    *)
(* returns from inside its body, so the statement after the loop is never    *)
(* reached.                                                                  *)
(* One attempt that succeeds: the request                                    *)
(* event, the POST answered with response_text, the response event.          *)
GenOk(response_text) ==
    /\ pc = "gen"
    /\ attempt < ClientMaxRetries
    /\ response_text # S_AnswerNL => faults < MaxFaults
    /\ faults' = IF response_text # S_AnswerNL THEN faults + 1 ELSE faults
    /\ LET a == tasks[cur].agent_type
       IN /\ request_count' = [request_count EXCEPT ![a] = @ + 1]
          /\ events' = events \o <<Event("request", a, attempt + 1),
                                   Event("response", a, attempt + 1)>>
    /\ genResult' = response_text
    /\ genCalls' = genCalls + 1
    /\ lastGen' = [kind |-> "response", text |-> response_text,
                   fails |-> transportFails]
    /\ shortOnly' = (shortOnly /\ Len(Strip(response_text)) < MinResultLen)
    /\ pc' = "pt_validate"
    /\ UNCHANGED <<tasks, task_queue, completed_tasks, agents, caller, cur,
                   attempt, returned, transportFails, entry, directCalls, log,
                   sleeps>>
    /\ UNCHANGED paLocals
    /\ UNCHANGED cbVars

(* One attempt that raises aiohttp.ClientError / asyncio.TimeoutError: a     *)
(* backoff sleep and the next attempt, or after the last attempt the error   *)
(* event and the error string.                                               *)
GenTransportError(e) ==
    /\ pc = "gen"
    /\ attempt < ClientMaxRetries
    /\ faults < MaxFaults
    /\ faults' = faults + 1
    /\ transportFails' = transportFails + 1
    /\ LET a == tasks[cur].agent_type
       IN /\ request_count' = [request_count EXCEPT ![a] = @ + 1]
          /\ events' = FailedAttemptEvents(events, a, attempt)
          /\ IF ~LastAttempt(attempt)
             THEN /\ sleeps' = [sleeps EXCEPT
                                   !.client = Append(@, ClientBackoff(attempt))]
                  /\ attempt' = attempt + 1
                  /\ pc' = "gen"
                  /\ UNCHANGED <<genResult, genCalls, lastGen, shortOnly>>
             ELSE /\ genResult' = ClientErrorMsg(e)
                  /\ genCalls' = genCalls + 1
                  /\ lastGen' = [kind |-> "transport_error",
                                 text |-> ClientErrorMsg(e),
                                 fails |-> transportFails + 1]
                  /\ shortOnly' = FALSE
                  /\ pc' = "pt_validate"
                  /\ UNCHANGED <<attempt, sleeps>>
    /\ UNCHANGED <<tasks, task_queue, completed_tasks, agents, caller, cur,
                   returned, entry, directCalls, log>>
    /\ UNCHANGED paLocals
    /\ UNCHANGED cbVars

(* One attempt that raises any other exception: not retried.                 *)
GenUnexpected(e) ==
    /\ pc = "gen"
    /\ attempt < ClientMaxRetries
    /\ faults < MaxFaults
    /\ faults' = faults + 1
    /\ LET a == tasks[cur].agent_type
       IN /\ request_count' = [request_count EXCEPT ![a] = @ + 1]
          /\ events' = events \o <<Event("request", a, attempt + 1),
                                   Event("error", a, 0)>>
    /\ genResult' = UnexpectedErrorMsg(e)
    /\ genCalls' = genCalls + 1
    /\ lastGen' = [kind |-> "unexpected", text |-> UnexpectedErrorMsg(e),
                   fails |-> transportFails]
    /\ shortOnly' = FALSE
    /\ pc' = "pt_validate"
    /\ UNCHANGED <<tasks, task_queue, completed_tasks, agents, caller, cur,
                   attempt, returned, transportFails, entry, directCalls, log,
                   sleeps>>
    /\ UNCHANGED paLocals
    /\ UNCHANGED cbVars

(* The except branch of process_task, e being the message of the exception:  *)
(* the last retry fails the task and process_task returns, so that           *)
(* assign_task logs the failure and returns the error string; an earlier     *)
(* retry sleeps and calls async_generate again.                              *)
ProcessTaskExcept(e) ==
    LET a == tasks[cur].agent_type
        retries == tasks[cur].retry_count + 1
    IN IF retries >= tasks[cur].max_retries
       THEN /\ tasks' = [tasks EXCEPT ![cur].retry_count = retries,
                                      ![cur].result = TaskErrorMsg(tasks[cur], e),
                                      ![cur].status = ERROR]
            /\ agents' = [agents EXCEPT ![a].status = ERROR]
            /\ returned' = TaskErrorMsg(tasks[cur], e)
            /\ log' = FailedLines(log, log_callback, cur)
            /\ pc' = "assign_ret"
            /\ UNCHANGED <<task_queue, completed_tasks, attempt, events,
                           transportFails, sleeps>>
       ELSE /\ tasks' = [tasks EXCEPT ![cur].retry_count = retries]
            /\ sleeps' = [client |-> <<>>,
                          task |-> Append(sleeps.task, TaskBackoff(retries))]
            /\ pc' = "gen"
            /\ attempt' = 0
            /\ events' = <<>>
            /\ transportFails' = 0
            /\ UNCHANGED <<agents, returned, task_queue, completed_tasks, log>>

(* process_task after async_generate returned: _validate_result, then        *)
(* either the success assignments or the except branch.  When process_task   *)
(* returns, assign_task moves a COMPLETED task from the queue to             *)
(* completed_tasks, logs the outcome and returns the result.                 *)
PTValidate ==
    /\ pc = "pt_validate"
    /\ LET v == ValidateResult(genResult)
           a == tasks[cur].agent_type
           done == [tasks EXCEPT ![cur].result = v.value,
                                 ![cur].status = COMPLETED,
                                 ![cur].timestamp = S_Stamp]
       IN IF v.ok
          THEN /\ tasks' = done
               /\ agents' = CompleteAgent(agents, a)
               /\ returned' = v.value
               /\ task_queue' = RemoveIfIn(done, task_queue, cur)
               /\ completed_tasks' = Append(completed_tasks, cur)
               /\ log' = CompleteLines(log, log_callback, cur)
               /\ pc' = "assign_ret"
               /\ UNCHANGED <<attempt, events, transportFails, sleeps>>
          ELSE ProcessTaskExcept(v.value)
    /\ UNCHANGED <<request_count, caller, cur, genResult, genCalls, lastGen,
                   shortOnly, entry, faults, directCalls>>
    /\ UNCHANGED paLocals
    /\ UNCHANGED cbVars

ClearLocals ==
    /\ caller' = "none"
    /\ cur' = 0
    /\ returned' = None
    /\ attempt' = 0
    /\ genResult' = None
    /\ events' = <<>>
    /\ sleeps' = NoSleeps
    /\ genCalls' = 0
    /\ lastGen' = NoGen
    /\ shortOnly' = TRUE
    /\ transportFails' = 0
    /\ entry' = NoEntry

ClearCall ==
    /\ ClearLocals
    /\ log' = <<>>

(* assign_task returns to its direct caller.                                 *)
AssignReturn ==
    /\ pc = "assign_ret"
    /\ caller = "direct"
    /\ pc' = "idle"
    /\ ClearCall
    /\ UNCHANGED <<tasks, task_queue, completed_tasks, agents, request_count,
                   faults, directCalls>>
    /\ UNCHANGED paLocals
    /\ UNCHANGED cbVars

(* AgentOrchestrator.process_all_tasks *)
ProcessAllStart ==
    /\ pc = "idle"
    /\ total_tasks' = Len(task_queue)
    /\ failed_tasks' = <<>>
    /\ completed_count' = 0
    /\ log' = LogMessage(<<>>, log_callback, "[PROCESS]", 0)
    /\ pc' = "pa_loop"
    /\ UNCHANGED <<tasks, task_queue, completed_tasks, agents, request_count,
                   caller, cur, returned, entry, faults, directCalls>>
    /\ UNCHANGED genVars
    /\ UNCHANGED cbVars

(* `while self.task_queue`: assign_task on the head of the queue.            *)
PALoop ==
    /\ pc = "pa_loop"
    /\ task_queue # <<>>
    /\ AssignEnter(Head(task_queue), "pa")
    /\ UNCHANGED directCalls
    /\ UNCHANGED paLocals

(* assign_task returns into the loop body: the task is counted, or recorded  *)
(* as failed and removed from the queue; then the pacing sleep.              *)
PAAfter ==
    /\ pc = "assign_ret"
    /\ caller = "pa"
    /\ IF tasks[cur].status = COMPLETED
       THEN /\ completed_count' = completed_count + 1
            /\ UNCHANGED <<failed_tasks, task_queue>>
       ELSE IF tasks[cur].status = ERROR
       THEN /\ failed_tasks' = Append(failed_tasks, cur)
            /\ task_queue' = RemoveIfIn(tasks, task_queue, cur)
            /\ UNCHANGED completed_count
       ELSE UNCHANGED <<completed_count, failed_tasks, task_queue>>
    /\ pc' = "pa_loop"
    /\ ClearCall
    /\ UNCHANGED <<tasks, completed_tasks, agents, request_count, faults,
                   directCalls, total_tasks>>
    /\ UNCHANGED cbVars

(* The queue is empty: the final summary is logged.                          *)
PASummary ==
    /\ pc = "pa_loop"
    /\ task_queue = <<>>
    /\ log' = IF failed_tasks # <<>>
              THEN FailedSummaryLines(
                       SummaryLine(log_callback, completed_count, total_tasks,
                                   failed_tasks),
                       log_callback, failed_tasks)
              ELSE DoneLine(log_callback, total_tasks)
    /\ pc' = "pa_ret"
    /\ UNCHANGED <<tasks, task_queue, completed_tasks, agents, request_count,
                   caller, cur, returned, entry, faults, directCalls>>
    /\ UNCHANGED genVars
    /\ UNCHANGED paLocals
    /\ UNCHANGED cbVars

PAReturn ==
    /\ pc = "pa_ret"
    /\ pc' = "idle"
    /\ total_tasks' = 0
    /\ failed_tasks' = <<>>
    /\ completed_count' = 0
    /\ log' = <<>>
    /\ UNCHANGED <<tasks, task_queue, completed_tasks, agents, request_count,
                   caller, cur, returned, entry, faults, directCalls>>
    /\ UNCHANGED genVars
    /\ UNCHANGED cbVars

----------------------------------------------------------------------------

Next ==
    \/ \E d \in Descriptions, a \in AgentTypeInputs :
           Len(tasks) < MaxTasks /\ CreateTask(d, a)
    \/ \E t \in 1..Len(tasks) : AssignTaskCall(t)
    \/ \E r \in Responses : GenOk(r)
    \/ GenTransportError(S_Refused)
    \/ GenUnexpected(S_Boom)
    \/ PTValidate
    \/ AssignReturn
    \/ ProcessAllStart
    \/ PALoop
    \/ PAAfter
    \/ PASummary
    \/ PAReturn

Spec == Init /\ [][Next]_vars

(* A call that has started keeps running: every generation call and sleep   *)
(* returns.  The caller's own operations (create_task, assign_task,          *)
(* process_all_tasks) are under no obligation to happen.                     *)
Running ==
    \/ \E r \in Responses : GenOk(r)
    \/ GenTransportError(S_Refused)
    \/ GenUnexpected(S_Boom)
    \/ PTValidate
    \/ AssignReturn
    \/ PALoop
    \/ PAAfter
    \/ PASummary
    \/ PAReturn

FairSpec == Spec /\ WF_vars(Running)

(* The end-to-end scenario: tasks are enqueued and run by process_all_tasks  *)
(* against a client that always returns a valid answer.                      *)
NextMock ==
    \/ \E d \in Descriptions, a \in AgentTypeInputs :
           Len(tasks) < MaxBatch /\ CreateTask(d, a)
    \/ GenOk(S_AnswerNL)
    \/ PTValidate
    \/ ProcessAllStart
    \/ PALoop
    \/ PAAfter
    \/ PASummary
    \/ PAReturn

SpecMock == Init /\ [][NextMock]_vars

----------------------------------------------------------------------------
(* Observers.  set_log_callback and set_ollama_callback register a callable  *)
(* between operations; a registered callable may raise when it is called.    *)

S_Observer ==
    <<"o","b","s","e","r","v","e","r">>

S_Critical ==
    <<"C","r","i","t","i","c","a","l"," ","e","r","r","o","r"," ",
      "a","s","s","i","g","n","i","n","g"," ","t","a","s","k"," ">>

S_ColonSpace ==
    <<":"," ">>

(* f"Critical error assigning task {task.id}: {str(e)}" *)
CriticalMsg(task, e) ==
    S_Critical \o task.id \o S_ColonSpace \o e

SetLogCallback ==
    /\ pc = "idle"
    /\ ~log_callback
    /\ log_callback' = TRUE
    /\ UNCHANGED <<tasks, task_queue, completed_tasks, agents, request_count,
                   pc, caller, cur, returned, entry, faults, directCalls, log,
                   ollama_interaction_callback, viz, twin>>
    /\ UNCHANGED genVars
    /\ UNCHANGED paLocals

SetOllamaCallback ==
    /\ pc = "idle"
    /\ ~ollama_interaction_callback
    /\ ollama_interaction_callback' = TRUE
    /\ UNCHANGED <<tasks, task_queue, completed_tasks, agents, request_count,
                   pc, caller, cur, returned, entry, faults, directCalls, log,
                   log_callback, viz, twin>>
    /\ UNCHANGED genVars
    /\ UNCHANGED paLocals

(* async_generate, the interaction callback raising on the request event     *)
(* (at = "request") or on the response event (at = "response"): the          *)
(* exception is caught by `except Exception`, which builds the error string  *)
(* and calls the callback with the error event; that call returns, or        *)
(* raises again, and then the exception leaves async_generate.               *)
GenCallbackRaises(at, again) ==
    /\ pc = "gen"
    /\ attempt < ClientMaxRetries
    /\ ollama_interaction_callback
    /\ faults < MaxFaults
    /\ faults' = faults + 1
    /\ LET a == tasks[cur].agent_type
           seen == IF at = "request"
                   THEN <<Event("request", a, attempt + 1)>>
                   ELSE <<Event("request", a, attempt + 1),
                          Event("response", a, attempt + 1)>>
       IN /\ request_count' = [request_count EXCEPT ![a] = @ + 1]
          /\ events' = events \o seen \o <<Event("error", a, 0)>>
    /\ genCalls' = genCalls + 1
    /\ shortOnly' = FALSE
    /\ IF again
       THEN /\ genResult' = S_Observer
            /\ lastGen' = [kind |-> "raised", text |-> S_Observer,
                           fails |-> transportFails]
            /\ pc' = "pt_raised"
       ELSE /\ genResult' = UnexpectedErrorMsg(S_Observer)
            /\ lastGen' = [kind |-> "unexpected",
                           text |-> UnexpectedErrorMsg(S_Observer),
                           fails |-> transportFails]
            /\ pc' = "pt_validate"
    /\ UNCHANGED <<tasks, task_queue, completed_tasks, agents, caller, cur,
                   attempt, returned, transportFails, entry, directCalls, log,
                   sleeps>>
    /\ UNCHANGED paLocals
    /\ UNCHANGED cbVars

(* async_generate, the interaction callback raising on the error event,      *)
(* which is emitted inside an except handler: after the last transport       *)
(* failure (kind = "transport") or after any other exception (kind =         *)
(* "unexpected").  The exception leaves async_generate.                      *)
GenErrorCallbackRaises(kind) ==
    /\ pc = "gen"
    /\ attempt < ClientMaxRetries
    /\ ollama_interaction_callback
    /\ kind = "transport" => LastAttempt(attempt)
    /\ faults < MaxFaults
    /\ faults' = faults + 1
    /\ LET a == tasks[cur].agent_type
       IN /\ request_count' = [request_count EXCEPT ![a] = @ + 1]
          /\ events' = IF kind = "transport"
                       THEN FailedAttemptEvents(events, a, attempt)
                       ELSE events \o <<Event("request", a, attempt + 1),
                                        Event("error", a, 0)>>
    /\ transportFails' = IF kind = "transport" THEN transportFails + 1
                         ELSE transportFails
    /\ genCalls' = genCalls + 1
    /\ shortOnly' = FALSE
    /\ genResult' = S_Observer
    /\ lastGen' = [kind |-> "raised", text |-> S_Observer,
                   fails |-> transportFails']
    /\ pc' = "pt_raised"
    /\ UNCHANGED <<tasks, task_queue, completed_tasks, agents, caller, cur,
                   attempt, returned, entry, directCalls, log, sleeps>>
    /\ UNCHANGED paLocals
    /\ UNCHANGED cbVars

(* process_task, async_generate having raised: the except branch with the    *)
(* message of the exception.                                                 *)
PTExcept ==
    /\ pc = "pt_raised"
    /\ ProcessTaskExcept(genResult)
    /\ UNCHANGED <<request_count, caller, cur, genResult, genCalls, lastGen,
                   shortOnly, entry, faults, directCalls>>
    /\ UNCHANGED paLocals
    /\ UNCHANGED cbVars

(* assign_task entered with a log callback that raises on the first line.    *)
(* For an unknown persona the [ERROR] line is logged outside any try, so     *)
(* the exception leaves assign_task.  For a known persona the [ASSIGN]       *)
(* line is inside the try, before the agent is set WORKING: the handler      *)
(* fails the task and the agent and logs the [CRITICAL] line; that call      *)
(* returns, or raises again, and then the exception leaves assign_task.      *)
AssignEnterLogRaises(t, who, again) ==
    /\ log_callback
    /\ faults < MaxFaults
    /\ faults' = faults + 1
    /\ cur' = t
    /\ caller' = who
    /\ events' = <<>>
    /\ sleeps' = NoSleeps
    /\ genCalls' = 0
    /\ lastGen' = NoGen
    /\ shortOnly' = TRUE
    /\ transportFails' = 0
    /\ attempt' = 0
    /\ genResult' = None
    /\ IF tasks[t].agent_type \notin AgentKeys
       THEN /\ again
            /\ tasks' = FailUnknown(tasks, t)
            /\ entry' = [retry_count |-> tasks[t].retry_count,
                         tasks_completed |-> 0, status |-> tasks[t].status]
            /\ log' = LogMessage(<<>>, log_callback, "[ERROR]", t)
            /\ returned' = None
            /\ pc' = "assign_raised"
            /\ UNCHANGED agents
       ELSE /\ tasks' = [tasks EXCEPT
                            ![t].status = ERROR,
                            ![t].result = CriticalMsg(tasks[t], S_Observer)]
            /\ agents' = [agents EXCEPT ![tasks[t].agent_type].status = ERROR]
            /\ entry' = [retry_count |-> tasks[t].retry_count,
                         tasks_completed |-> agents[tasks[t].agent_type].tasks_completed,
                         status |-> tasks[t].status]
            /\ log' = LogMessage(LogMessage(<<>>, log_callback, "[ASSIGN]", t),
                                 log_callback, "[CRITICAL]", t)
            /\ IF again
               THEN pc' = "assign_raised" /\ returned' = None
               ELSE /\ pc' = "assign_ret"
                    /\ returned' = CriticalMsg(tasks[t], S_Observer)
    /\ UNCHANGED <<task_queue, completed_tasks, request_count>>
    /\ UNCHANGED cbVars

AssignTaskCallLogRaises(t, again) ==
    /\ pc = "idle"
    /\ directCalls < MaxDirect
    /\ directCalls' = directCalls + 1
    /\ AssignEnterLogRaises(t, "direct", again)
    /\ UNCHANGED paLocals

PALoopLogRaises(again) ==
    /\ pc = "pa_loop"
    /\ task_queue # <<>>
    /\ AssignEnterLogRaises(Head(task_queue), "pa", again)
    /\ UNCHANGED directCalls
    /\ UNCHANGED paLocals

(* assign_task, process_task having returned, with a log callback that       *)
(* raises on the [COMPLETE] or [FAILED] line: a COMPLETED task has already   *)
(* been moved to completed_tasks when the handler fails it.                  *)
FinalLogRaises(again) ==
    /\ pc = "assign_ret"
    /\ log_callback
    /\ Len(log) >= 2
    /\ log[Len(log) - 1].tag \in {"[COMPLETE]", "[FAILED]"}
    /\ faults < MaxFaults
    /\ faults' = faults + 1
    /\ tasks' = [tasks EXCEPT
                    ![cur].status = ERROR,
                    ![cur].result = CriticalMsg(tasks[cur], S_Observer)]
    /\ agents' = [agents EXCEPT ![tasks[cur].agent_type].status = ERROR]
    /\ log' = LogMessage(SubSeq(log, 1, Len(log) - 1), log_callback,
                         "[CRITICAL]", cur)
    /\ IF again
       THEN pc' = "assign_raised" /\ returned' = None
       ELSE /\ pc' = "assign_ret"
            /\ returned' = CriticalMsg(tasks[cur], S_Observer)
    /\ UNCHANGED <<task_queue, completed_tasks, request_count, caller, cur,
                   entry, directCalls>>
    /\ UNCHANGED genVars
    /\ UNCHANGED paLocals
    /\ UNCHANGED cbVars

(* The exception leaves assign_task and reaches its direct caller.           *)
AssignRaised ==
    /\ pc = "assign_raised"
    /\ caller = "direct"
    /\ pc' = "idle"
    /\ ClearCall
    /\ UNCHANGED <<tasks, task_queue, completed_tasks, agents, request_count,
                   faults, directCalls>>
    /\ UNCHANGED paLocals
    /\ UNCHANGED cbVars

(* process_all_tasks, assign_task having raised: the except branch logs an   *)
(* [ERROR] line, records the task as failed and removes it from the queue.   *)
(* When the log callback raises on that line the exception leaves            *)
(* process_all_tasks.                                                        *)
PAExcept(again) ==
    /\ pc = "assign_raised"
    /\ caller = "pa"
    /\ log' = LogMessage(<<>>, log_callback, "[ERROR]", cur)
    /\ IF again
       THEN /\ log_callback
            /\ faults < MaxFaults
            /\ faults' = faults + 1
            /\ pc' = "pa_raised"
            /\ UNCHANGED <<failed_tasks, task_queue>>
       ELSE /\ failed_tasks' = Append(failed_tasks, cur)
            /\ task_queue' = RemoveIfIn(tasks, task_queue, cur)
            /\ pc' = "pa_loop"
            /\ UNCHANGED faults
    /\ ClearLocals
    /\ UNCHANGED <<tasks, completed_tasks, agents, request_count, directCalls,
                   total_tasks, completed_count>>
    /\ UNCHANGED cbVars

(* process_all_tasks with a log callback that raises on the [PROCESS]        *)
(* line, which is logged outside any try.                                    *)
ProcessAllStartLogRaises ==
    /\ pc = "idle"
    /\ log_callback
    /\ faults < MaxFaults
    /\ faults' = faults + 1
    /\ total_tasks' = Len(task_queue)
    /\ log' = LogMessage(<<>>, log_callback, "[PROCESS]", 0)
    /\ pc' = "pa_raised"
    /\ UNCHANGED <<tasks, task_queue, completed_tasks, agents, request_count,
                   caller, cur, returned, entry, directCalls, failed_tasks,
                   completed_count>>
    /\ UNCHANGED genVars
    /\ UNCHANGED cbVars

(* process_all_tasks with a log callback that raises on the first line of    *)
(* the final summary.                                                        *)
PASummaryLogRaises ==
    /\ pc = "pa_loop"
    /\ task_queue = <<>>
    /\ log_callback
    /\ faults < MaxFaults
    /\ faults' = faults + 1
    /\ log' = IF failed_tasks # <<>>
              THEN SummaryLine(log_callback, completed_count, total_tasks,
                               failed_tasks)
              ELSE DoneLine(log_callback, total_tasks)
    /\ pc' = "pa_raised"
    /\ UNCHANGED <<tasks, task_queue, completed_tasks, agents, request_count,
                   caller, cur, returned, entry, directCalls>>
    /\ UNCHANGED genVars
    /\ UNCHANGED paLocals
    /\ UNCHANGED cbVars

(* The exception leaves process_all_tasks and reaches its caller.            *)
PARaised ==
    /\ pc = "pa_raised"
    /\ pc' = "idle"
    /\ total_tasks' = 0
    /\ failed_tasks' = <<>>
    /\ completed_count' = 0
    /\ log' = <<>>
    /\ UNCHANGED <<tasks, task_queue, completed_tasks, agents, request_count,
                   caller, cur, returned, entry, faults, directCalls>>
    /\ UNCHANGED genVars
    /\ UNCHANGED cbVars

NextCb ==
    \/ \E d \in Descriptions, a \in AgentTypeInputs :
           Len(tasks) < MaxTasks /\ CreateTask(d, a)
    \/ SetLogCallback
    \/ SetOllamaCallback
    \/ \E t \in 1..Len(tasks) : AssignTaskCall(t)
    \/ \E t \in 1..Len(tasks), again \in BOOLEAN : AssignTaskCallLogRaises(t, again)
    \/ GenOk(S_AnswerNL)
    \/ GenTransportError(S_Refused)
    \/ GenUnexpected(S_Boom)
    \/ \E at \in {"request", "response"}, again \in BOOLEAN :
           GenCallbackRaises(at, again)
    \/ \E kind \in {"transport", "unexpected"} : GenErrorCallbackRaises(kind)
    \/ PTValidate
    \/ PTExcept
    \/ \E again \in BOOLEAN : FinalLogRaises(again)
    \/ AssignReturn
    \/ AssignRaised
    \/ ProcessAllStart
    \/ ProcessAllStartLogRaises
    \/ PALoop
    \/ \E again \in BOOLEAN : PALoopLogRaises(again)
    \/ PAAfter
    \/ \E again \in BOOLEAN : PAExcept(again)
    \/ PASummary
    \/ PASummaryLogRaises
    \/ PAReturn
    \/ PARaised

SpecCb == Init /\ [][NextCb]_vars

(* The log lines with observers that never raise: a log callback may be      *)
(* registered, and generation returns an answer of either length.            *)
NextLog ==
    \/ \E d \in Descriptions, a \in AgentTypeInputs :
           Len(tasks) < MaxTasks /\ CreateTask(d, a)
    \/ SetLogCallback
    \/ \E t \in 1..Len(tasks) : AssignTaskCall(t)
    \/ \E r \in Responses : GenOk(r)
    \/ PTValidate
    \/ AssignReturn
    \/ ProcessAllStart
    \/ PALoop
    \/ PAAfter
    \/ PASummary
    \/ PAReturn

SpecLog == Init /\ [][NextLog]_vars

----------------------------------------------------------------------------
(* The simple variant, src/agent_system.py, used by src/simple_demo.py and   *)
(* src/ollama_demo.py.  Its Task has neither retry_count nor max_retries;    *)
(* generate makes one attempt and returns a string whatever happens;         *)
(* process_task does not validate what generate returned.  With observers    *)
(* that return, the except branch of its process_task is never entered.      *)

SimpleTask(id, description, agent_type) ==
    [id |-> id, description |-> description, agent_type |-> agent_type,
     status |-> IDLE, result |-> None, timestamp |-> None]

(* f"Error: {str(e)}" *)
SimpleErrorMsg(e) ==
    S_ErrorColon \o <<" ">> \o e

SimpleCreateTask(description, agent_type) ==
    /\ pc = "idle"
    /\ LET task_id == TaskId(Len(task_queue) + Len(completed_tasks) + 1)
       IN tasks' = Append(tasks, SimpleTask(task_id, description, agent_type))
    /\ task_queue' = Append(task_queue, Len(tasks) + 1)
    /\ UNCHANGED <<completed_tasks, agents, request_count, pc, caller, cur,
                   returned, entry, faults, directCalls, log>>
    /\ UNCHANGED genVars
    /\ UNCHANGED paLocals
    /\ UNCHANGED cbVars

(* assign_task up to the generate call of process_task.  For an unknown      *)
(* agent_type it returns the error string and touches nothing.               *)
SimpleAssignEnter(t, who) ==
    /\ cur' = t
    /\ caller' = who
    /\ events' = <<>>
    /\ sleeps' = NoSleeps
    /\ genCalls' = 0
    /\ lastGen' = NoGen
    /\ shortOnly' = TRUE
    /\ transportFails' = 0
    /\ attempt' = 0
    /\ genResult' = None
    /\ entry' = NoEntry
    /\ IF tasks[t].agent_type \notin AgentKeys
       THEN /\ returned' = UnknownAgentMsg(tasks[t].agent_type)
            /\ pc' = "assign_ret"
            /\ log' = <<>>
            /\ UNCHANGED <<tasks, agents>>
       ELSE /\ log' = AssignLines(log_callback, t)
            /\ agents' = [agents EXCEPT ![tasks[t].agent_type].status = WORKING]
            /\ tasks' = [tasks EXCEPT ![t].status = WORKING]
            /\ returned' = None
            /\ pc' = "gen"
    /\ UNCHANGED <<task_queue, completed_tasks, request_count, faults>>
    /\ UNCHANGED cbVars

SimpleAssignTaskCall(t) ==
    /\ pc = "idle"
    /\ directCalls < MaxDirect
    /\ directCalls' = directCalls + 1
    /\ SimpleAssignEnter(t, "direct")
    /\ UNCHANGED paLocals

(* generate: kind "response" is the POST answered with text; kind            *)
(* "transport_error" is requests.exceptions.RequestException and kind        *)
(* "unexpected" any other exception, text being its message.                 *)
SimpleGenerate(kind, text) ==
    /\ pc = "gen"
    /\ (kind # "response" \/ text # S_AnswerNL) => faults < MaxFaults
    /\ faults' = IF kind # "response" \/ text # S_AnswerNL THEN faults + 1
                 ELSE faults
    /\ LET a == tasks[cur].agent_type
           out == IF kind = "response" THEN text
                  ELSE IF kind = "transport_error" THEN SimpleErrorMsg(text)
                  ELSE UnexpectedErrorMsg(text)
       IN /\ request_count' = [request_count EXCEPT ![a] = @ + 1]
          /\ events' = <<Event("request", a, 0),
                         Event(IF kind = "response" THEN "response" ELSE "error",
                               a, 0)>>
          /\ genResult' = out
          /\ lastGen' = [kind |-> kind, text |-> out, fails |-> 0]
    /\ genCalls' = genCalls + 1
    /\ pc' = "pt_validate"
    /\ UNCHANGED <<tasks, task_queue, completed_tasks, agents, caller, cur,
                   attempt, returned, transportFails, shortOnly, entry,
                   directCalls, log, sleeps>>
    /\ UNCHANGED paLocals
    /\ UNCHANGED cbVars

(* process_task after generate returned, and the rest of assign_task: the    *)
(* task is COMPLETED with whatever string came back, taken off the queue     *)
(* and appended to completed_tasks.                                          *)
SimpleProcessTask ==
    /\ pc = "pt_validate"
    /\ LET a == tasks[cur].agent_type
           done == [tasks EXCEPT ![cur].result = genResult,
                                 ![cur].status = COMPLETED,
                                 ![cur].timestamp = S_Stamp]
       IN /\ tasks' = done
          /\ agents' = CompleteAgent(agents, a)
          /\ returned' = genResult
          /\ task_queue' = RemoveIfIn(done, task_queue, cur)
          /\ completed_tasks' = Append(completed_tasks, cur)
          /\ log' = CompleteLines(log, log_callback, cur)
    /\ pc' = "assign_ret"
    /\ UNCHANGED <<request_count, caller, cur, entry, faults, directCalls>>
    /\ UNCHANGED genVars
    /\ UNCHANGED paLocals
    /\ UNCHANGED cbVars

SimpleProcessAllStart ==
    /\ pc = "idle"
    /\ log' = LogMessage(<<>>, log_callback, "[PROCESS]", 0)
    /\ pc' = "pa_loop"
    /\ UNCHANGED <<tasks, task_queue, completed_tasks, agents, request_count,
                   caller, cur, returned, entry, faults, directCalls>>
    /\ UNCHANGED genVars
    /\ UNCHANGED paLocals
    /\ UNCHANGED cbVars

(* `while self.task_queue`: assign_task on the head of the queue.            *)
SimplePALoop ==
    /\ pc = "pa_loop"
    /\ task_queue # <<>>
    /\ SimpleAssignEnter(Head(task_queue), "pa")
    /\ UNCHANGED directCalls
    /\ UNCHANGED paLocals

(* assign_task returns into the loop body, whose only other statement is     *)
(* the pacing sleep.                                                         *)
SimplePAAfter ==
    /\ pc = "assign_ret"
    /\ caller = "pa"
    /\ pc' = "pa_loop"
    /\ ClearCall
    /\ UNCHANGED <<tasks, task_queue, completed_tasks, agents, request_count,
                   faults, directCalls>>
    /\ UNCHANGED paLocals
    /\ UNCHANGED cbVars

SimplePADone ==
    /\ pc = "pa_loop"
    /\ task_queue = <<>>
    /\ log' = LogMessage(<<>>, log_callback, "[DONE]", 0)
    /\ pc' = "pa_ret"
    /\ UNCHANGED <<tasks, task_queue, completed_tasks, agents, request_count,
                   caller, cur, returned, entry, faults, directCalls>>
    /\ UNCHANGED genVars
    /\ UNCHANGED paLocals
    /\ UNCHANGED cbVars

SimplePAReturn ==
    /\ pc = "pa_ret"
    /\ pc' = "idle"
    /\ log' = <<>>
    /\ UNCHANGED <<tasks, task_queue, completed_tasks, agents, request_count,
                   caller, cur, returned, entry, faults, directCalls>>
    /\ UNCHANGED genVars
    /\ UNCHANGED paLocals
    /\ UNCHANGED cbVars

SimpleNext ==
    \/ \E d \in Descriptions, a \in AgentTypeInputs :
           Len(tasks) < MaxTasks /\ SimpleCreateTask(d, a)
    \/ \E t \in 1..Len(tasks) : SimpleAssignTaskCall(t)
    \/ \E r \in Responses : SimpleGenerate("response", r)
    \/ SimpleGenerate("transport_error", S_Refused)
    \/ SimpleGenerate("unexpected", S_Boom)
    \/ SimpleProcessTask
    \/ AssignReturn
    \/ SimpleProcessAllStart
    \/ SimplePALoop
    \/ SimplePAAfter
    \/ SimplePADone
    \/ SimplePAReturn

SimpleSpec == Init /\ [][SimpleNext]_vars

(* A call that has started keeps running: generate and sleep return.         *)
SimpleRunning ==
    \/ \E r \in Responses : SimpleGenerate("response", r)
    \/ SimpleGenerate("transport_error", S_Refused)
    \/ SimpleGenerate("unexpected", S_Boom)
    \/ SimpleProcessTask
    \/ AssignReturn
    \/ SimplePALoop
    \/ SimplePAAfter
    \/ SimplePADone
    \/ SimplePAReturn

FairSimpleSpec == SimpleSpec /\ WF_vars(SimpleRunning)

(* -------------------------------------------------------------------------- *)
(* UnifiedVisualizer: the layout file agent_positions.json                    *)
(* -------------------------------------------------------------------------- *)

(* json.load of an integer literal: the decimal digits read back.            *)
JsonDigit(c) ==
    (CHOOSE i \in 1..10 : DigitChars[i] = c) - 1

RECURSIVE JsonLoadInt(_)
JsonLoadInt(s) ==
    IF Len(s) = 0 THEN 0
    ELSE 10 * JsonLoadInt(SubSeq(s, 1, Len(s) - 1)) + JsonDigit(s[Len(s)])

(* json.dump of an integer: its decimal digits.                              *)
JsonDumpInt(n) ==
    DecStr(n)

(* The order in which the positions dict is built and iterated.              *)
VizOrder ==
    <<"sales", "appraisal", "finance", "manager", "orchestrator", "ollama">>

Clamp(lo, hi, x) ==
    IF x < lo THEN lo ELSE IF x > hi THEN hi ELSE x

(* constrain_agent_position: keep a dragged agent OllamaMargin inside.       *)
ConstrainAgentPosition(pos) ==
    <<Clamp(OllamaMargin, GraphicsWidth - OllamaMargin, pos[1]),
      Clamp(OllamaMargin, VizHeight - OllamaMargin, pos[2])>>

(* dict.update: the keys of u replace or extend those of d.                  *)
DictUpdate(d, u) ==
    [k \in (DOMAIN d) \cup (DOMAIN u) |-> IF k \in DOMAIN u THEN u[k] ELSE d[k]]

(* The document save_agent_positions writes: positions as two-element lists  *)
(* and a copy of the custom sizes, every number as its JSON literal.         *)
JsonDocument(positions, sizes) ==
    [kind |-> "json",
     fmt |-> "new",
     positions |-> [a \in DOMAIN positions |->
                       <<JsonDumpInt(positions[a][1]), JsonDumpInt(positions[a][2])>>],
     custom_sizes |-> [a \in DOMAIN sizes |-> JsonDumpInt(sizes[a])]]

CorruptFile ==
    [kind |-> "corrupt"]

(* save_agent_positions; outcome "ok", or open() raising (the file is left   *)
(* as it was), or the write raising after open() truncated the file.         *)
SaveAgentPositions(v, outcome) ==
    [v EXCEPT !.positions_file =
        CASE outcome = "ok" -> JsonDocument(v.agent_positions, v.agent_custom_sizes)
          [] outcome = "open_fails" -> @
          [] outcome = "write_fails" -> CorruptFile]

(* The positions of the saved document that precede the first entry that is  *)
(* not a two-element list, in iteration order.                               *)
RECURSIVE ValidPrefix(_, _)
ValidPrefix(doc, i) ==
    IF i > Len(VizOrder) THEN {}
    ELSE IF VizOrder[i] \notin DOMAIN doc.positions
         THEN ValidPrefix(doc, i + 1)
         ELSE IF Len(doc.positions[VizOrder[i]]) = 2
              THEN {VizOrder[i]} \cup ValidPrefix(doc, i + 1)
              ELSE {}

LoadedPosition(pos) ==
    <<Clamp(LoadMargin, GraphicsWidth - LoadMargin, JsonLoadInt(pos[1])),
      Clamp(LoadMargin, VizHeight - LoadMargin, JsonLoadInt(pos[2]))>>

(* saved_sizes: the custom_sizes of a new-format document, none of a legacy  *)
(* one.                                                                      *)
SavedSizes_Legacy(doc) ==
    EmptyDict

SavedSizes(doc) ==
    IF doc.fmt = "new"
    THEN [a \in DOMAIN doc.custom_sizes |-> JsonLoadInt(doc.custom_sizes[a])]
    ELSE EmptyDict

(* load_agent_positions: the visualizer after the call, "loaded" holding     *)
(* the value returned.                                                       *)
LoadAgentPositions(v) ==
    LET doc == v.positions_file
    IN IF doc.kind # "json" THEN [v EXCEPT !.loaded = FALSE]
       ELSE IF ~(VizKeys \subseteq DOMAIN doc.positions)
            THEN [v EXCEPT !.loaded = FALSE]
            ELSE LET ok == ValidPrefix(doc, 1)
                     pos == [a \in DOMAIN v.agent_positions |->
                                IF a \in ok THEN LoadedPosition(doc.positions[a])
                                ELSE v.agent_positions[a]]
                 IN IF ok # DOMAIN doc.positions
                    THEN [v EXCEPT !.agent_positions = pos, !.loaded = FALSE]
                    ELSE [v EXCEPT !.agent_positions = pos,
                                   !.agent_custom_sizes =
                                       DictUpdate(@, SavedSizes(doc)),
                                   !.using_default_positions = FALSE,
                                   !.loaded = TRUE]

(* setup_agent_positions: load, or fall back to the default layout.          *)
SetupAgentPositions(v) ==
    LET l == LoadAgentPositions(v)
    IN IF l.loaded THEN l
       ELSE [l EXCEPT !.agent_positions = DefaultPositions,
                      !.using_default_positions = TRUE]

(* Files the visualizer may find when it is constructed.                     *)
LegacyFile ==
    [kind |-> "json", fmt |-> "legacy",
     positions |-> [a \in VizKeys |-> <<JsonDumpInt(10), JsonDumpInt(790)>>],
     custom_sizes |-> EmptyDict]

IncompleteFile ==
    [kind |-> "json", fmt |-> "new",
     positions |-> [a \in VizKeys \ {"ollama"} |-> <<JsonDumpInt(100), JsonDumpInt(100)>>],
     custom_sizes |-> [a \in {"sales"} |-> JsonDumpInt(80)]]

InvalidFile ==
    [kind |-> "json", fmt |-> "new",
     positions |-> [a \in VizKeys |->
                       IF a = "finance" THEN <<JsonDumpInt(100)>>
                       ELSE <<JsonDumpInt(100), JsonDumpInt(100)>>],
     custom_sizes |-> [a \in {"sales"} |-> JsonDumpInt(80)]]

SizedFile ==
    JsonDocument(DefaultPositions, [a \in {"manager"} |-> 60])

InitialFiles ==
    {NoFile, CorruptFile, LegacyFile, IncompleteFile, InvalidFile, SizedFile}

DragPoints ==
    {<<0, 0>>}

ResizeTargets ==
    {100, 200}

VizOnly ==
    UNCHANGED <<tasks, task_queue, completed_tasks, agents, request_count, pc,
                caller, cur, attempt, genResult, returned, events, genCalls,
                lastGen, shortOnly, transportFails, entry, total_tasks,
                failed_tasks, completed_count, faults, directCalls, sleeps,
                twin, log, log_callback, ollama_interaction_callback>>

VizCanEdit ==
    /\ viz.phase = "none"
    /\ viz.edits < MaxEdits

(* handle_mouse_motion while resizing: the size clamped to 25..150.          *)
VizResize(agent, new_size) ==
    /\ VizCanEdit
    /\ viz' = [viz EXCEPT
                 !.agent_custom_sizes =
                     [a \in (DOMAIN @) \cup {agent} |->
                         IF a = agent
                         THEN Clamp(MinAgentSize, MaxAgentSize, new_size)
                         ELSE @[a]],
                 !.edits = @ + 1]
    /\ VizOnly

(* handle_mouse_motion while dragging.                                       *)
VizDrag(agent, pos) ==
    /\ VizCanEdit
    /\ viz' = [viz EXCEPT !.agent_positions[agent] = ConstrainAgentPosition(pos),
                          !.edits = @ + 1]
    /\ VizOnly

(* The R key: default layout, no custom sizes, saved.                        *)
VizReset(outcome) ==
    /\ VizCanEdit
    /\ viz' = [SaveAgentPositions(
                  [viz EXCEPT !.agent_positions = DefaultPositions,
                              !.using_default_positions = TRUE,
                              !.agent_custom_sizes = EmptyDict], outcome)
               EXCEPT !.edits = @ + 1]
    /\ VizOnly

(* save_agent_positions called on its own (test_resize.py line 56).          *)
VizSave(outcome) ==
    /\ viz.phase = "none"
    /\ viz' = [SaveAgentPositions(viz, outcome) EXCEPT
                 !.phase = "saved",
                 !.saved = (outcome = "ok")]
    /\ VizOnly

(* original_sizes = agent_custom_sizes.copy(); agent_custom_sizes.clear()    *)
VizClear ==
    /\ viz.phase = "saved"
    /\ viz' = [viz EXCEPT !.original_sizes = viz.agent_custom_sizes,
                          !.agent_custom_sizes = EmptyDict,
                          !.phase = "cleared"]
    /\ VizOnly

(* load_agent_positions, after a clear or on its own.                        *)
VizLoad ==
    /\ viz.phase \in {"none", "cleared"}
    /\ viz.phase = "none" => VizCanEdit
    /\ viz' = [LoadAgentPositions(viz) EXCEPT
                 !.phase = IF viz.phase = "cleared" THEN "loaded" ELSE "none",
                 !.edits = IF viz.phase = "cleared" THEN @ ELSE @ + 1]
    /\ VizOnly

(* The comparison made, the visualizer is used further.                      *)
VizResume ==
    /\ viz.phase = "loaded"
    /\ viz' = [viz EXCEPT !.phase = "none", !.saved = FALSE,
                          !.original_sizes = EmptyDict]
    /\ VizOnly

(* UnifiedVisualizer.__init__ over each file it may find.                    *)
VizInit ==
    /\ \E f \in InitialFiles :
          viz = SetupAgentPositions([VizDefault EXCEPT !.positions_file = f])
    /\ tasks = <<>>
    /\ task_queue = <<>>
    /\ completed_tasks = <<>>
    /\ agents = [a \in AgentKeys |-> [status |-> IDLE, tasks_completed |-> 0]]
    /\ request_count = [a \in AgentKeys |-> 0]
    /\ pc = "idle"
    /\ caller = "none"
    /\ cur = 0
    /\ attempt = 0
    /\ genResult = None
    /\ returned = None
    /\ events = <<>>
    /\ genCalls = 0
    /\ lastGen = NoGen
    /\ shortOnly = TRUE
    /\ transportFails = 0
    /\ entry = NoEntry
    /\ total_tasks = 0
    /\ failed_tasks = <<>>
    /\ completed_count = 0
    /\ faults = 0
    /\ directCalls = 0
    /\ sleeps = NoSleeps
    /\ twin = NoTwin
    /\ log = <<>>
    /\ log_callback = FALSE
    /\ ollama_interaction_callback = FALSE

SaveOutcomes ==
    {"ok", "open_fails", "write_fails"}

NextViz ==
    \/ \E a \in VizKeys, n \in ResizeTargets : VizResize(a, n)
    \/ \E a \in VizKeys, p \in DragPoints : VizDrag(a, p)
    \/ \E o \in SaveOutcomes : VizReset(o)
    \/ \E o \in SaveOutcomes : VizSave(o)
    \/ VizClear
    \/ VizLoad
    \/ VizResume

SpecViz ==
    VizInit /\ [][NextViz]_vars

(* -------------------------------------------------------------------------- *)
(* Two orchestrators side by side: every call of the dispatcher as a         *)
(* function of the orchestrator and of the transport outcomes.               *)
(* -------------------------------------------------------------------------- *)

(* What one generation meets: an answer, a short answer, an answer after one *)
(* retried transport failure, transport failures on every attempt, or an     *)
(* exception of another kind.                                                *)
Outcomes ==
    {"ok", "short", "retry_ok", "transport", "unexpected"}

(* _handle_ollama_interaction: the event reaches the observer when one is    *)
(* registered and is dropped otherwise.                                      *)
HandleOllamaInteraction(o, type, a) ==
    IF o.ollama_interaction_callback
    THEN [o EXCEPT !.events = Append(@, [type |-> type, agent_type |-> a,
                                         request_id |-> o.request_count[a]])]
    ELSE o

(* Mutant: the request is counted only when an observer is registered.       *)
CountRequest_WhenObserved(o, a) ==
    IF o.ollama_interaction_callback
    THEN HandleOllamaInteraction([o EXCEPT !.request_count[a] = @ + 1], "request", a)
    ELSE o

(* async_generate, the head of one attempt: request_count += 1, then the     *)
(* request event.                                                            *)
CountRequest(o, a) ==
    HandleOllamaInteraction([o EXCEPT !.request_count[a] = @ + 1], "request", a)

RECURSIVE FailedAttempts(_, _, _)
FailedAttempts(o, a, n) ==
    IF n = 0 THEN o ELSE FailedAttempts(CountRequest(o, a), a, n - 1)

(* async_generate under outcome oc: the orchestrator afterwards and the      *)
(* string returned.                                                          *)
AsyncGenerate(o, a, oc) ==
    CASE oc = "ok" ->
           [o |-> HandleOllamaInteraction(CountRequest(o, a), "response", a),
            result |-> S_AnswerNL]
      [] oc = "short" ->
           [o |-> HandleOllamaInteraction(CountRequest(o, a), "response", a),
            result |-> S_Short]
      [] oc = "retry_ok" ->
           [o |-> HandleOllamaInteraction(
                      CountRequest(FailedAttempts(o, a, 1), a), "response", a),
            result |-> S_AnswerNL]
      [] oc = "transport" ->
           [o |-> HandleOllamaInteraction(
                      FailedAttempts(o, a, ClientMaxRetries), "error", a),
            result |-> ClientErrorMsg(S_Boom)]
      [] oc = "unexpected" ->
           [o |-> HandleOllamaInteraction(CountRequest(o, a), "error", a),
            result |-> UnexpectedErrorMsg(S_Boom)]

(* log_message on orchestrator o.                                            *)
Log(o, tag, t) ==
    [o EXCEPT !.log = LogMessage(@, o.log_callback, tag, t)]

(* The while loop of process_task on task t, generation g of this call       *)
(* meeting outcome outs[g].                                                  *)
RECURSIVE ProcessTaskLoop(_, _, _, _)
ProcessTaskLoop(o, t, outs, g) ==
    LET a == o.tasks[t].agent_type
    IN IF ~(o.tasks[t].retry_count < o.tasks[t].max_retries)
       THEN [o |-> o, result |-> S_TaskFailed]
       ELSE LET gen == AsyncGenerate(o, a, outs[g])
                v == ValidateResult(gen.result)
                retries == o.tasks[t].retry_count + 1
            IN IF v.ok
               THEN [o |-> [gen.o EXCEPT
                              !.tasks[t].result = v.value,
                              !.tasks[t].status = COMPLETED,
                              !.tasks[t].timestamp = S_Stamp,
                              !.agents = CompleteAgent(@, a)],
                     result |-> v.value]
               ELSE IF retries >= o.tasks[t].max_retries
               THEN [o |-> [gen.o EXCEPT
                              !.tasks[t].retry_count = retries,
                              !.tasks[t].result = TaskErrorMsg(o.tasks[t], v.value),
                              !.tasks[t].status = ERROR,
                              !.agents[a].status = ERROR],
                     result |-> TaskErrorMsg(o.tasks[t], v.value)]
               ELSE ProcessTaskLoop([gen.o EXCEPT !.tasks[t].retry_count = retries],
                                    t, outs, g + 1)

(* process_task: agent and task WORKING, then the loop.                      *)
ProcessTask(o, t, outs) ==
    ProcessTaskLoop([o EXCEPT !.agents[o.tasks[t].agent_type].status = WORKING,
                              !.tasks[t].status = WORKING],
                    t, outs, 1)

(* assign_task on task t.                                                    *)
AssignTask(o, t, outs) ==
    IF o.tasks[t].agent_type \notin AgentKeys
    THEN [Log([o EXCEPT !.tasks = FailUnknown(@, t)], "[ERROR]", t)
          EXCEPT !.returned = UnknownAgentMsg(o.tasks[t].agent_type)]
    ELSE LET run == ProcessTask(Log(Log(o, "[ASSIGN]", t), "   Task:", t), t, outs)
             p == run.o
         IN IF p.tasks[t].status = COMPLETED
            THEN [Log(Log([p EXCEPT
                             !.task_queue = RemoveIfIn(p.tasks, @, t),
                             !.completed_tasks = Append(@, t)],
                          "[COMPLETE]", t), "   Result:", t)
                  EXCEPT !.returned = run.result]
            ELSE [Log(Log(p, "[FAILED]", t), "   Error:", t)
                  EXCEPT !.returned = run.result]

(* The loop and the summary of process_all_tasks.  A head task that comes    *)
(* back neither COMPLETED nor ERROR stays at the head: the loop never ends.  *)
RECURSIVE ProcessAllLoop(_, _, _, _, _)
ProcessAllLoop(o, outs, total, completed, failed) ==
    IF o.task_queue = <<>>
    THEN IF failed # <<>>
         THEN [o EXCEPT !.log = FailedSummaryLines(
                                    @ \o SummaryLine(o.log_callback, completed,
                                                     total, failed),
                                    o.log_callback, failed)]
         ELSE [o EXCEPT !.log = @ \o DoneLine(o.log_callback, total)]
    ELSE LET t == Head(o.task_queue)
             p == AssignTask(o, t, outs)
         IN IF p.tasks[t].status = COMPLETED
            THEN ProcessAllLoop(p, outs, total, completed + 1, failed)
            ELSE IF p.tasks[t].status = ERROR
            THEN ProcessAllLoop([p EXCEPT !.task_queue = RemoveIfIn(p.tasks, @, t)],
                                outs, total, completed, Append(failed, t))
            ELSE [p EXCEPT !.hung = TRUE]

(* process_all_tasks.                                                        *)
ProcessAllTasks(o, outs) ==
    [ProcessAllLoop(Log(o, "[PROCESS]", 0), outs, Len(o.task_queue), 0, <<>>)
     EXCEPT !.returned = None]

(* create_task.                                                              *)
CreateTaskIn(o, description, agent_type) ==
    LET task_id == TaskId(Len(o.task_queue) + Len(o.completed_tasks) + 1)
    IN [o EXCEPT !.tasks = Append(@, NewTask(task_id, description, agent_type)),
                 !.task_queue = Append(@, Len(o.tasks) + 1)]

(* A call starts: what the previous call printed and emitted is dropped.     *)
Fresh(o) ==
    [o EXCEPT !.log = <<>>, !.events = <<>>]

TwinOnly ==
    UNCHANGED <<tasks, task_queue, completed_tasks, agents, request_count, pc,
                caller, cur, attempt, genResult, returned, events, genCalls,
                lastGen, shortOnly, transportFails, entry, total_tasks,
                failed_tasks, completed_count, faults, directCalls, sleeps,
                viz, log, log_callback, ollama_interaction_callback>>

TwinRunning ==
    /\ ~twin.plain.hung
    /\ ~twin.observed.hung

TwinCreateTask(description, agent_type) ==
    /\ TwinRunning
    /\ Len(twin.plain.tasks) < MaxTasks
    /\ twin.steps < MaxTwinSteps
    /\ twin' = [twin EXCEPT
                  !.plain = CreateTaskIn(@, description, agent_type),
                  !.observed = CreateTaskIn(@, description, agent_type),
                  !.steps = @ + 1]
    /\ TwinOnly

(* set_log_callback / set_ollama_callback on the observed orchestrator.      *)
TwinSetLogCallback ==
    /\ TwinRunning
    /\ ~twin.observed.log_callback
    /\ twin' = [twin EXCEPT !.observed.log_callback = TRUE]
    /\ TwinOnly

TwinSetOllamaCallback ==
    /\ TwinRunning
    /\ ~twin.observed.ollama_interaction_callback
    /\ twin' = [twin EXCEPT !.observed.ollama_interaction_callback = TRUE]
    /\ TwinOnly

TwinAssignTask(t, outs) ==
    /\ TwinRunning
    /\ twin.steps < MaxTwinSteps
    /\ twin' = [twin EXCEPT
                  !.plain = AssignTask(Fresh(@), t, outs),
                  !.observed = AssignTask(Fresh(@), t, outs),
                  !.steps = @ + 1]
    /\ TwinOnly

TwinProcessAllTasks(outs) ==
    /\ TwinRunning
    /\ twin.steps < MaxTwinSteps
    /\ twin' = [twin EXCEPT
                  !.plain = ProcessAllTasks(Fresh(@), outs),
                  !.observed = ProcessAllTasks(Fresh(@), outs),
                  !.steps = @ + 1]
    /\ TwinOnly

(* Two orchestrators just constructed; the dispatcher of the other          *)
(* specifications is not run.                                                *)
TwinInit ==
    /\ twin = TwinDefault
    /\ viz = NoVisualizer
    /\ tasks = <<>>
    /\ task_queue = <<>>
    /\ completed_tasks = <<>>
    /\ agents = [a \in AgentKeys |-> [status |-> IDLE, tasks_completed |-> 0]]
    /\ request_count = [a \in AgentKeys |-> 0]
    /\ pc = "idle"
    /\ caller = "none"
    /\ cur = 0
    /\ attempt = 0
    /\ genResult = None
    /\ returned = None
    /\ events = <<>>
    /\ genCalls = 0
    /\ lastGen = NoGen
    /\ shortOnly = TRUE
    /\ transportFails = 0
    /\ entry = NoEntry
    /\ total_tasks = 0
    /\ failed_tasks = <<>>
    /\ completed_count = 0
    /\ faults = 0
    /\ directCalls = 0
    /\ sleeps = NoSleeps
    /\ log = <<>>
    /\ log_callback = FALSE
    /\ ollama_interaction_callback = FALSE

(* The outcomes of the generations of one call, in order.                    *)
OutcomeScripts ==
    {<<"ok", "ok", "ok">>,
     <<"retry_ok", "ok", "ok">>,
     <<"transport", "ok", "ok">>,
     <<"short", "unexpected", "ok">>,
     <<"short", "retry_ok", "ok">>,
     <<"unexpected", "short", "short">>}

NextTwin ==
    \/ \E d \in Descriptions, a \in AgentTypeInputs : TwinCreateTask(d, a)
    \/ TwinSetLogCallback
    \/ TwinSetOllamaCallback
    \/ \E t \in 1..Len(twin.plain.tasks), outs \in OutcomeScripts :
           TwinAssignTask(t, outs)
    \/ \E outs \in OutcomeScripts : TwinProcessAllTasks(outs)

SpecTwin ==
    TwinInit /\ [][NextTwin]_vars

----------------------------------------------------------------------------
(* Helpers of the properties *)

Registered(t) ==
    tasks[t].agent_type \in AgentKeys

Count(evs, type) ==
    Cardinality({i \in 1..Len(evs) : evs[i].type = type})

Occurrences(lst, t) ==
    Cardinality({i \in 1..Len(lst) : lst[i] = t})

DigitVal(c) ==
    CHOOSE d \in 0..9 : DigitChars[d + 1] = c

RECURSIVE DecVal(_)
DecVal(s) ==
    IF s = <<>> THEN 0 ELSE 10 * DecVal(SubSeq(s, 1, Len(s) - 1)) + DigitVal(s[Len(s)])

IdNumber(id) ==
    DecVal(SubSeq(id, Len(S_TaskPrefix) + 1, Len(id)))

AllowedTransition(from, to) ==
    \/ from = IDLE /\ to = WORKING
    \/ from = WORKING /\ to = COMPLETED
    \/ from = WORKING /\ to = ERROR
    \/ from = IDLE /\ to = ERROR

CreatedOrder ==
    [i \in 1..Len(tasks) |-> i]

----------------------------------------------------------------------------
(* C1: every id assigned by create_task differs from every id assigned      *)
(* earlier and its number is strictly greater than that of every earlier     *)
(* id.  The code violates it: process_all_tasks removes a failed task from   *)
(* the queue without adding it to completed_tasks, so the count the next id  *)
(* is computed from goes down.                                               *)
C1_IdsUniqueIncreasing ==
    \A i \in 1..Len(tasks) : \A j \in 1..Len(tasks) :
        i < j => /\ tasks[i].id # tasks[j].id
                 /\ IdNumber(tasks[i].id) < IdNumber(tasks[j].id)

(* C2: process_all_tasks, once started, eventually returns with the pending  *)
(* queue empty.  The code violates it for a head task that a direct          *)
(* assign_task left Failed with its retries spent: the loop never removes    *)
(* it.                                                                       *)
C2_ProcessAllTerminates ==
    (pc = "pa_loop") ~> (pc = "pa_ret" /\ task_queue = <<>>)

(* C3: a task's status changes only along IDLE -> WORKING -> COMPLETED,      *)
(* WORKING -> ERROR, or IDLE -> ERROR; nothing leaves COMPLETED or ERROR.    *)
(* The code violates it when assign_task is called again on a finished      *)
(* task.                                                                     *)
C3_StatusTransitions ==
    [][\A t \in 1..Len(tasks) :
           tasks'[t].status # tasks[t].status
               => AllowedTransition(tasks[t].status, tasks'[t].status)]_vars

(* C4: between operations every created task is in exactly one of            *)
(* task_queue and completed_tasks, exactly once.  The code violates it: a    *)
(* task failed inside process_all_tasks is in neither, and a task assigned   *)
(* again after completing is twice in completed_tasks.                       *)
C4_ExactlyOneCollection ==
    pc = "idle" =>
        \A t \in 1..Len(tasks) :
            Occurrences(task_queue, t) + Occurrences(completed_tasks, t) = 1

(* C5: assign_task leaves a task COMPLETED only when the last generation     *)
(* returned a genuine response of at least 10 trimmed characters, never an   *)
(* error string of async_generate.  The code violates it for the string      *)
(* returned after the transport retries are exhausted.                       *)
C5_CompletedOnlyOnGenuine ==
    (pc = "assign_ret" /\ tasks[cur].status = COMPLETED) =>
        /\ lastGen.kind = "response"
        /\ Len(Strip(lastGen.text)) >= MinResultLen

(* C6: when process_all_tasks has run against a client that always returns   *)
(* a valid answer, every registered-persona task is COMPLETED and in         *)
(* completed_tasks in creation order, every unregistered-persona task is     *)
(* ERROR, the queue is empty and each persona's tasks_completed is the       *)
(* number of tasks enqueued for it.                                          *)
C6_EndToEnd ==
    pc = "pa_ret" =>
        /\ task_queue = <<>>
        /\ \A t \in 1..Len(tasks) :
               tasks[t].status = IF Registered(t) THEN COMPLETED ELSE ERROR
        /\ completed_tasks = SelectSeq(CreatedOrder, Registered)
        /\ Len(completed_tasks) = Cardinality({t \in 1..Len(tasks) : Registered(t)})
        /\ \A a \in AgentKeys :
               agents[a].tasks_completed =
                   Cardinality({t \in 1..Len(tasks) : tasks[t].agent_type = a})

C6_Witness ==
    /\ pc = "pa_ret"
    /\ total_tasks = 3
    /\ Len(tasks) = 3
    /\ tasks[1].agent_type = "sales" /\ tasks[1].status = COMPLETED
    /\ tasks[2].agent_type = "finance" /\ tasks[2].status = COMPLETED
    /\ tasks[3].agent_type = "bogus" /\ tasks[3].status = ERROR
    /\ agents["sales"].tasks_completed = 1
    /\ agents["finance"].tasks_completed = 1
    /\ Len(completed_tasks) = 2
    /\ Len(task_queue) = 0

(* C7: assign_task on a task whose agent_type is not a registry key fails    *)
(* the task with the returned error string as its result, returns at once    *)
(* without any generation call or event and without the task ever being      *)
(* WORKING, and leaves the queue, completed_tasks, every persona and every   *)
(* client unchanged.                                                         *)
C7_UnknownPersona ==
    [][\A t \in 1..Len(tasks) :
           ((AssignTaskCall(t) \/ (PALoop /\ cur' = t)) /\ ~Registered(t))
               => /\ pc' = "assign_ret"
                  /\ tasks'[t].status = ERROR
                  /\ returned' = UnknownAgentMsg(tasks[t].agent_type)
                  /\ tasks'[t].result = returned'
                  /\ events' = <<>> /\ genCalls' = 0
                  /\ UNCHANGED <<task_queue, completed_tasks, agents, request_count>>]_vars

C7_Witness ==
    /\ pc = "assign_ret"
    /\ ~Registered(cur)
    /\ entry.status = IDLE
    /\ tasks[cur].status = ERROR
    /\ tasks[cur].result = returned

(* C8: for a task entering assign_task with retry_count 0 whose every        *)
(* generation returns fewer than 10 trimmed characters, generation is        *)
(* invoked exactly max_retries times, the task ends ERROR with retry_count   *)
(* = max_retries, the persona ends ERROR and its tasks_completed is          *)
(* unchanged.                                                                *)
C8_ShortResultsExhaustRetries ==
    (pc = "assign_ret" /\ Registered(cur) /\ entry.retry_count = 0 /\ shortOnly) =>
        /\ genCalls = tasks[cur].max_retries
        /\ tasks[cur].status = ERROR
        /\ tasks[cur].retry_count = tasks[cur].max_retries
        /\ agents[tasks[cur].agent_type].status = ERROR
        /\ agents[tasks[cur].agent_type].tasks_completed = entry.tasks_completed

C8_Witness ==
    /\ pc = "assign_ret"
    /\ Registered(cur)
    /\ entry.retry_count = 0
    /\ shortOnly
    /\ genCalls = TaskMaxRetries
    /\ tasks[cur].status = ERROR

(* C9: when the transport fails on the first k attempts (k < max_retries)    *)
(* and then succeeds, async_generate returns the success text, and exactly   *)
(* k+1 request events, one response event and no error event were emitted.   *)
C9_FailThenSucceed ==
    (pc = "pt_validate" /\ lastGen.kind = "response") =>
        /\ transportFails < ClientMaxRetries
        /\ genResult = lastGen.text
        /\ Count(events, "request") = transportFails + 1
        /\ Count(events, "response") = 1
        /\ Count(events, "error") = 0
        /\ Len(events) = transportFails + 2

C9_Witness ==
    /\ pc = "pt_validate"
    /\ lastGen.kind = "response"
    /\ transportFails = 2
    /\ genResult = S_AnswerNL
    /\ Count(events, "request") = 3

(* C10: when the transport fails on every attempt, async_generate returns    *)
(* a string beginning with "Error", and exactly max_retries request events,  *)
(* no response event and one error event, the last event of all, were        *)
(* emitted.                                                                  *)
C10_AllAttemptsFail ==
    (pc = "pt_validate" /\ lastGen.kind = "transport_error") =>
        /\ StartsWith(genResult, <<"E","r","r","o","r">>)
        /\ transportFails = ClientMaxRetries
        /\ Count(events, "request") = ClientMaxRetries
        /\ Count(events, "response") = 0
        /\ Count(events, "error") = 1
        /\ events[Len(events)].type = "error"
        /\ Len(events) = ClientMaxRetries + 1

C10_Witness ==
    /\ pc = "pt_validate"
    /\ lastGen.kind = "transport_error"
    /\ transportFails = ClientMaxRetries
    /\ genResult = ClientErrorMsg(S_Refused)

(* C11: the generation call never raises to its caller: after a transport    *)
(* failure, after any other exception during the attempt, and after an       *)
(* exception raised by the registered interaction callback, it returns a     *)
(* string that starts with an error prefix.  The code violates it: the       *)
(* error event is emitted inside the except handlers of async_generate, so   *)
(* an exception raised by the callback on that event leaves async_generate.  *)
C11_GenerationNeverRaises ==
    /\ pc # "pt_raised"
    /\ (pc = "pt_validate" /\ lastGen.kind # "response")
           => \/ StartsWith(genResult, <<"E","r","r","o","r">>)
              \/ StartsWith(genResult, S_Unexpected)

(* C12: process_all_tasks never raises to its caller, and a task's failure   *)
(* (unknown persona, retries exhausted, an exception raised during           *)
(* assignment or by the log callback) does not abort the batch: it ends      *)
(* only by returning, with every queued task handed to assign_task and the   *)
(* queue empty.  The code violates it: the [PROCESS] line, the [ERROR] line  *)
(* of the except branch and the summary lines are logged outside any try,    *)
(* so an exception raised by the log callback there leaves                   *)
(* process_all_tasks with tasks still queued.                                *)
C12_ProcessAllNeverRaises ==
    pc \in {"pa_ret", "pa_raised"} => (pc = "pa_ret" /\ task_queue = <<>>)

(* C13: whenever assign_task returns with the task not COMPLETED (unknown    *)
(* persona, retries exhausted, retry budget already spent on entry), the     *)
(* returned string begins with "Error", the task is ERROR and task.result    *)
(* is the returned string.  The code violates it for a task that enters      *)
(* with its retry budget spent: process_task returns "Task failed after all  *)
(* retries" and leaves the task WORKING with its old result.                 *)
C13_FailureReturn ==
    (pc = "assign_ret" /\ tasks[cur].status # COMPLETED) =>
        /\ StartsWith(returned, <<"E","r","r","o","r">>)
        /\ tasks[cur].status = ERROR
        /\ tasks[cur].result = returned

(* C14: assign_task never raises to its caller: an exception raised during   *)
(* generation, during result handling or by the log callback ends with the   *)
(* task ERROR, the persona ERROR and an error string returned, and the task  *)
(* so failed is not in completed_tasks.  The code violates it: the           *)
(* [CRITICAL] line of the handler and the [ERROR] line of the unknown        *)
(* persona branch are logged outside any try, and the [COMPLETE] line is     *)
(* logged after the task was appended to completed_tasks.                    *)
C14_AssignNeverRaises ==
    /\ pc # "assign_raised"
    /\ (pc = "assign_ret" /\ log # <<>> /\ log[Len(log)].tag = "[CRITICAL]")
           => /\ tasks[cur].status = ERROR
              /\ agents[tasks[cur].agent_type].status = ERROR
              /\ returned = tasks[cur].result
              /\ \A i \in 1..Len(completed_tasks) : completed_tasks[i] # cur

CountTag(lg, tag) ==
    Cardinality({i \in 1..Len(lg) : lg[i].tag = tag})

(* C15: every assign_task call on a registered persona emits exactly one     *)
(* [ASSIGN] line for the task, first of all, and before it returns exactly   *)
(* one [COMPLETE] or [FAILED] line for the same task after it, with no line  *)
(* of another task in between; [COMPLETE] is emitted if and only if the      *)
(* task ended COMPLETED.  Every line goes to the log callback when one is    *)
(* registered and to standard output otherwise.  Observers that return.      *)
C15_PairedLogLines ==
    (cur # 0 /\ Registered(cur) /\ pc \in {"gen", "pt_validate", "assign_ret"}) =>
        /\ Len(log) >= 1
        /\ log[1].tag = "[ASSIGN]"
        /\ CountTag(log, "[ASSIGN]") = 1
        /\ \A i \in 1..Len(log) :
               /\ log[i].task = cur
               /\ log[i].sink = IF log_callback THEN "callback" ELSE "stdout"
        /\ pc \in {"gen", "pt_validate"} =>
               CountTag(log, "[COMPLETE]") + CountTag(log, "[FAILED]") = 0
        /\ pc = "assign_ret" =>
               /\ CountTag(log, "[COMPLETE]") + CountTag(log, "[FAILED]") = 1
               /\ CountTag(log, "[COMPLETE]") = 1 <=> tasks[cur].status = COMPLETED

C15_Witness ==
    /\ pc = "assign_ret"
    /\ Registered(cur)
    /\ log_callback
    /\ tasks[cur].status = ERROR
    /\ Len(log) = 4
    /\ log[1].tag = "[ASSIGN]" /\ log[1].sink = "callback"
    /\ log[3].tag = "[FAILED]" /\ log[3].sink = "callback"

(* C16: process_all_tasks handles tasks strictly one at a time: at no time   *)
(* during it are two tasks WORKING or two personas WORKING.  The code        *)
(* violates it: a task assigned again with its retry budget spent stays      *)
(* WORKING, with its persona, while process_all_tasks works on the next      *)
(* task.                                                                     *)
C16_OneAtATime ==
    (caller = "pa" \/ pc \in {"pa_loop", "pa_ret"}) =>
        /\ Cardinality({t \in 1..Len(tasks) : tasks[t].status = WORKING}) <= 1
        /\ Cardinality({a \in AgentKeys : agents[a].status = WORKING}) <= 1

(* C17: when assign_task on a registered persona returns, that persona's     *)
(* status equals the status of the task just processed, and no step of the   *)
(* call changes the status or tasks_completed of any other persona.          *)
C17_PersonaMirrorsTask ==
    /\ [](pc = "assign_ret" /\ Registered(cur)
              => agents[tasks[cur].agent_type].status = tasks[cur].status)
    /\ [][\A b \in AgentKeys :
              agents'[b] # agents[b]
                  => cur' # 0 /\ b = tasks[cur'].agent_type]_vars

C17_Witness ==
    /\ pc = "assign_ret"
    /\ Registered(cur)
    /\ tasks[cur].status = COMPLETED
    /\ agents[tasks[cur].agent_type].status = COMPLETED
    /\ \E b \in AgentKeys :
           /\ b # tasks[cur].agent_type
           /\ agents[b].status = ERROR

(* C18: in every reachable state, a task's result is set exactly when its    *)
(* status is COMPLETED or ERROR.  The code violates it: assign_task on a     *)
(* finished task sets it WORKING again and keeps the old result.             *)
C18_ResultIffTerminal ==
    \A t \in 1..Len(tasks) :
        tasks[t].result # None <=> tasks[t].status \in {COMPLETED, ERROR}

(* C19: when a direct assign_task call exhausts the retries of the task,     *)
(* the ERROR task is no longer in task_queue when assign_task returns.  The  *)
(* code violates it: assign_task removes a task from the queue only when     *)
(* it is COMPLETED.                                                          *)
C19_ExhaustedTaskLeavesQueue ==
    (/\ pc = "assign_ret"
     /\ caller = "direct"
     /\ Registered(cur)
     /\ tasks[cur].status = ERROR
     /\ entry.retry_count < tasks[cur].max_retries
     /\ tasks[cur].retry_count >= tasks[cur].max_retries)
        => \A i \in 1..Len(task_queue) : task_queue[i] # cur

(* C20: in the simple variant process_all_tasks terminates with an empty     *)
(* queue even when the queue holds a task whose agent_type is not a          *)
(* registered persona.  The code violates it: its assign_task returns the    *)
(* error string for such a task without touching the task or the queue, so   *)
(* the task stays at the head and the loop never ends.                       *)
C20_SimpleProcessAllTerminates ==
    (pc = "pa_loop") ~> (pc = "pa_ret" /\ task_queue = <<>>)

(* C21: once save_agent_positions has succeeded, clearing agent_custom_sizes *)
(* and calling load_agent_positions restores agent_custom_sizes to exactly   *)
(* what it was before the clear, and the load reports success.               *)
C21_SizesRoundTrip ==
    (viz.phase = "loaded" /\ viz.saved)
        => /\ viz.loaded
           /\ viz.agent_custom_sizes = viz.original_sizes

C21_Witness ==
    /\ viz.phase = "loaded"
    /\ viz.saved
    /\ Cardinality(DOMAIN viz.original_sizes) >= 2
    /\ \E a \in DOMAIN viz.original_sizes : viz.original_sizes[a] = MaxAgentSize

(* A step that touches the interaction history appends to it (the history   *)
(* is cleared when the next call starts); the appended events are those at   *)
(* the positions old + 1 .. Len(events').                                    *)
C22_Step ==
    IF events' = events \/ events' = <<>>
    THEN request_count' = request_count
    ELSE LET old == Len(events)
             added == (old + 1)..Len(events')
             requests == {i \in added : events'[i].type = "request"}
         IN /\ \A i \in 1..old : events'[i] = events[i]
            /\ \A a \in AgentKeys :
                  request_count'[a] = request_count[a]
                      + Cardinality({i \in requests : events'[i].agent_type = a})
            /\ \A i \in requests :
                  /\ events'[i].request_id = request_count'[events'[i].agent_type]
                  /\ \A j \in 1..(i - 1) :
                        events'[j].agent_type = events'[i].agent_type
                            => events'[j].request_id < events'[i].request_id
            /\ \A i \in added \ requests :
                  \E j \in 1..(i - 1) :
                      /\ events'[j].type = "request"
                      /\ events'[j].agent_type = events'[i].agent_type
                      /\ events'[j].request_id = events'[i].request_id
                      /\ \A k \in (j + 1)..(i - 1) : events'[k].type # "request"

(* C22: request_count grows by exactly one per attempt, every request event  *)
(* carries an id strictly greater than every earlier request event of that   *)
(* client, and every response or error event carries the id of the request   *)
(* event emitted immediately before it.                                      *)
C22_RequestIds ==
    /\ [](\A i \in DOMAIN events :
             events[i].request_id <= request_count[events[i].agent_type])
    /\ [][C22_Step]_vars

(* One generate call that made three attempts: three requests, ids apart.    *)
C22_Witness ==
    /\ genCalls = 1
    /\ Count(events, "request") = ClientMaxRetries
    /\ events[Len(events)].type = "error"
    /\ request_count[tasks[cur].agent_type] >= ClientMaxRetries + 1

(* The waits of a generation call whose first n attempts failed in transport *)
(* and were retried: backoff_factor ^ 0, ..., backoff_factor ^ (n - 1), as   *)
(* fractions.                                                                *)
BackoffWaits(n) ==
    [k \in 1..n |-> <<Pow(BackoffNum, k - 1), Pow(BackoffDen, k - 1)>>]

(* C23: a failed transport attempt k < max_retries - 1 is followed by a wait *)
(* of backoff_factor ^ k; there is no wait after a success or after the      *)
(* final failed attempt, so a call whose attempts all fail waits exactly     *)
(* max_retries - 1 times, with exponents 0 .. max_retries - 2.               *)
C23_BackoffWaits ==
    /\ pc = "gen" => sleeps.client = BackoffWaits(attempt)
    /\ (pc = "pt_validate" /\ lastGen.kind = "response")
           => sleeps.client = BackoffWaits(lastGen.fails)
    /\ (pc = "pt_validate" /\ lastGen.kind = "transport_error")
           => /\ lastGen.fails = ClientMaxRetries
              /\ sleeps.client = BackoffWaits(ClientMaxRetries - 1)

C23_Witness ==
    /\ pc = "pt_validate"
    /\ lastGen.kind = "transport_error"
    /\ sleeps.client = <<<<1, 1>>, <<3, 2>>>>

C23_WitnessSuccess ==
    /\ pc = "pt_validate"
    /\ lastGen.kind = "response"
    /\ lastGen.fails = 2
    /\ Len(sleeps.client) = 2

(* C24: an exception that is not a transport failure is not retried,         *)
(* whatever the attempt number: the call returns a string prefixed           *)
(* "Unexpected error:" with exactly one error event, no request event after  *)
(* the failing attempt's and no backoff wait for it.                         *)
C24_UnexpectedNotRetried ==
    (pc = "pt_validate" /\ lastGen.kind = "unexpected")
        => /\ StartsWith(genResult, S_UnexpectedColon)
           /\ Count(events, "error") = 1
           /\ Count(events, "request") = lastGen.fails + 1
           /\ Len(events) = lastGen.fails + 2
           /\ events[Len(events)].type = "error"
           /\ events[Len(events) - 1].type = "request"
           /\ attempt = lastGen.fails
           /\ Len(sleeps.client) = lastGen.fails

(* The exception is raised by the last attempt, after two retried transport  *)
(* failures.                                                                 *)
C24_Witness ==
    /\ pc = "pt_validate"
    /\ lastGen.kind = "unexpected"
    /\ lastGen.fails = ClientMaxRetries - 1

C24_WitnessFirst ==
    /\ pc = "pt_validate"
    /\ lastGen.kind = "unexpected"
    /\ lastGen.fails = 0

(* The dispatcher's sleeps after r invalid generations: 1.5 ^ 1 .. 1.5 ^ r.  *)
TaskWaits(r) ==
    [k \in 1..r |-> <<Pow(BackoffNum, k), Pow(BackoffDen, k)>>]

(* Inside an assign_task call on a task of a known persona that entered      *)
(* with retry_count 0.                                                       *)
FreshCall ==
    /\ pc \in {"gen", "pt_validate", "assign_ret"}
    /\ cur # 0
    /\ tasks[cur].agent_type \in AgentKeys
    /\ entry.retry_count = 0

(* C25: within one assign_task from retry_count 0, retry_count counts the    *)
(* generations whose result failed validation and nothing else; after r      *)
(* invalid results and a valid one the generation was invoked r + 1 times,   *)
(* the dispatcher slept r times for 1.5 ^ 1 .. 1.5 ^ r, the task is          *)
(* Completed with retry_count = r and tasks_completed grew by one; and       *)
(* retry_count never exceeds max_retries.                                    *)
C25_RetryCount ==
    /\ \A t \in 1..Len(tasks) : tasks[t].retry_count <= tasks[t].max_retries
    /\ (FreshCall /\ pc = "gen")
           => /\ tasks[cur].retry_count = genCalls
              /\ sleeps.task = TaskWaits(genCalls)
    /\ (FreshCall /\ pc = "pt_validate")
           => /\ tasks[cur].retry_count = genCalls - 1
              /\ sleeps.task = TaskWaits(genCalls - 1)
    /\ (FreshCall /\ pc = "assign_ret" /\ tasks[cur].status = COMPLETED)
           => /\ genCalls = tasks[cur].retry_count + 1
              /\ sleeps.task = TaskWaits(tasks[cur].retry_count)
              /\ agents[tasks[cur].agent_type].tasks_completed
                     = entry.tasks_completed + 1
    /\ (FreshCall /\ pc = "assign_ret" /\ tasks[cur].status # COMPLETED)
           => /\ tasks[cur].retry_count = tasks[cur].max_retries
              /\ genCalls = tasks[cur].max_retries
              /\ agents[tasks[cur].agent_type].tasks_completed
                     = entry.tasks_completed

(* Two invalid results, then a valid one reached after a transport retry.    *)
C25_Witness ==
    /\ FreshCall
    /\ pc = "assign_ret"
    /\ tasks[cur].status = COMPLETED
    /\ tasks[cur].retry_count = 2
    /\ Len(sleeps.client) = 1
    /\ sleeps.task = <<<<3, 2>>, <<9, 4>>>>

(* C26: between operations, every persona's tasks_completed equals the       *)
(* number of completed_tasks entries of that persona whose status is         *)
(* Completed, so that the counters add up to len(completed_tasks).           *)
C26_CountersMatchCompleted ==
    pc = "idle"
        => /\ \A a \in AgentKeys :
                 agents[a].tasks_completed =
                     Cardinality({i \in 1..Len(completed_tasks) :
                                    /\ tasks[completed_tasks[i]].agent_type = a
                                    /\ tasks[completed_tasks[i]].status = COMPLETED})
           /\ \A i \in 1..Len(completed_tasks) :
                 tasks[completed_tasks[i]].status = COMPLETED

(* C27: when process_all_tasks returns, its completed count plus the number  *)
(* of tasks it recorded as failed equals the queue length at the start of    *)
(* the call, no task being recorded twice; [DONE] is logged exactly when no  *)
(* task failed, and otherwise the [SUMMARY] line reports both counts.        *)
C27_SummaryCounts ==
    pc = "pa_ret"
        => /\ completed_count + Len(failed_tasks) = total_tasks
           /\ \A i, j \in 1..Len(failed_tasks) :
                 failed_tasks[i] = failed_tasks[j] => i = j
           /\ CountTag(log, "[DONE]") = (IF failed_tasks = <<>> THEN 1 ELSE 0)
           /\ CountTag(log, "[SUMMARY]") = (IF failed_tasks = <<>> THEN 0 ELSE 1)
           /\ failed_tasks # <<>>
                 => /\ log[1].text = DecStr(completed_count) \o <<"/">>
                                         \o DecStr(total_tasks) \o S_TasksCompleted
                                         \o DecStr(Len(failed_tasks)) \o S_FailedWord
                    /\ CountTag(log, "   Failed:") = Len(failed_tasks)
           /\ failed_tasks = <<>>
                 => log[1].text = S_AllWord \o DecStr(total_tasks) \o S_CompletedOk

(* One task completed and one failed.                                        *)
C27_Witness ==
    /\ pc = "pa_ret"
    /\ total_tasks = 2
    /\ completed_count = 1
    /\ Len(failed_tasks) = 1

C27_WitnessDone ==
    /\ pc = "pa_ret"
    /\ total_tasks = 2
    /\ completed_count = 2

C30_SimpleFailedGenerationIsError ==
    (pc = "assign_ret" /\ cur # 0 /\ lastGen.kind \in {"transport_error", "unexpected"})
        => /\ tasks[cur].status = ERROR
           /\ tasks[cur].status # COMPLETED
           /\ ~TaskIn(tasks, cur, completed_tasks)

(* What the core of an orchestrator holds and returns, the observers and     *)
(* what they received left out.                                              *)
CoreOf(o) ==
    [tasks |-> o.tasks, task_queue |-> o.task_queue,
     completed_tasks |-> o.completed_tasks, agents |-> o.agents,
     request_count |-> o.request_count, returned |-> o.returned,
     hung |-> o.hung]

(* C28: for the same dispatcher calls and the same transport outcomes, the   *)
(* returned strings, every task, both collections and every persona are the  *)
(* same whether or not the interaction and log callbacks are registered.     *)
C28_ObserversDoNotInterfere ==
    CoreOf(twin.plain) = CoreOf(twin.observed)

(* Both observers are registered and have received lines and events of a     *)
(* call in which one task completed after a retry and another failed.        *)
C28_Witness ==
    /\ twin.observed.log_callback
    /\ twin.observed.ollama_interaction_callback
    /\ Len(twin.observed.events) >= 2
    /\ \E i \in 1..Len(twin.observed.log) : twin.observed.log[i].sink = "callback"
    /\ twin.plain.events = <<>>
    /\ \E t \in 1..Len(twin.observed.tasks) :
          /\ twin.observed.tasks[t].status = COMPLETED
          /\ twin.observed.tasks[t].retry_count > 0
    /\ \E t \in 1..Len(twin.observed.tasks) :
          twin.observed.tasks[t].status = ERROR

====
